---- MODULE Spec2Model ----
(***************************************************************************)
(* The history-backed state store of the infinite canvas                   *)
(* (src/src/context/CanvasContext.tsx) and the pointer handlers of the     *)
(* Canvas component that drive it (src/unnamed/part_006).                  *)
(*                                                                         *)
(* The reducer is a pure function; every case of its switch is an operator *)
(* on the CanvasStateWithHistory record, and every dispatch is an action   *)
(* state' = canvasReducer(state, action).                                  *)
(***************************************************************************)
EXTENDS Integers, Sequences, FiniteSets, TLC

VARIABLES
  state,       \* CanvasStateWithHistory: [current, past, future]
  canvas,      \* the Canvas component's own state and refs
  merges,      \* the merges that were started and have not settled
  uploads,     \* the file uploads that were started and have not finished
  saved        \* current.elements at the last LOAD_STATE or MARK_SAVED

vars == <<state, canvas, merges, uploads, saved>>

(***************************************************************************)
(* Bounds of the model.                                                    *)
(***************************************************************************)
MaxElements == 2       \* elements on the canvas at once
MaxPast == 1           \* depth to which Spec explores the history stack
MaxDeepElements == 1   \* elements on the canvas in SpecHistory
MaxIds == MaxElements + 1   \* ids in use at once
MaxMoves == 2          \* pointer moves of one gesture
MaxCanvasPast == 2     \* depth to which SpecCanvas explores the history stack
MaxAdds == 3           \* ADD_TO_SELECTION dispatches in a row
MaxMerges == 1         \* merges in flight at once
MaxZooms == 1          \* wheel zooms before the scale is reset
MaxPan == 1            \* wheel notches the viewport is panned from the origin
MaxFiles == 2          \* files picked in one upload
MaxUploads == 1        \* uploads in flight at once

(***************************************************************************)
(* Program constants.                                                      *)
(***************************************************************************)
MAX_HISTORY_LENGTH == 50

(***************************************************************************)
(* Values.                                                                 *)
(***************************************************************************)
Point(x, y) == [x |-> x, y |-> y]
Size(w, h) == [width |-> w, height |-> h]

P0 == Point(0, 0)
P1 == Point(50, 50)
Positions == {P0, P1}

\* loadImage: the element an upload produces.
ImageElement(id, position) ==
  [id |-> id, type |-> "image", position |-> position,
   size |-> Size(100, 100), originalSize |-> Size(100, 100),
   zIndex |-> 0, rotation |-> 0, scale |-> 1]

\* handleTextSave: the element a text insertion produces.
TextElement(id, position, zIndex) ==
  [id |-> id, type |-> "text", position |-> position,
   size |-> Size(100, 30), originalSize |-> Size(100, 30),
   zIndex |-> zIndex, rotation |-> 0, scale |-> 1, fontSize |-> 24]

initialCanvasState ==
  [elements |-> << >>,
   selectedIds |-> {},
   viewport |-> [offset |-> Point(0, 0), scale |-> 1],
   isDragging |-> FALSE,
   isPanning |-> FALSE,
   hasUnsavedChanges |-> FALSE]

initialStateWithHistory ==
  [current |-> initialCanvasState, past |-> << >>, future |-> << >>]

(***************************************************************************)
(* JavaScript helpers.                                                     *)
(***************************************************************************)
\* { ...base, ...patch }
Spread(base, patch) ==
  [f \in (DOMAIN base) \cup (DOMAIN patch) |->
     IF f \in DOMAIN patch THEN patch[f] ELSE base[f]]

\* array.slice(-n)
SliceLast(arr, n) ==
  IF Len(arr) <= n THEN arr ELSE SubSeq(arr, Len(arr) - n + 1, Len(arr))

\* array.slice(0, -1)
SliceButLast(arr) == SubSeq(arr, 1, Len(arr) - 1)

\* array.map(f)
Map(arr, f(_)) == [i \in 1..Len(arr) |-> f(arr[i])]

\* v || d on numbers
OrDefault(v, d) == IF v = 0 THEN d ELSE v

\* el.name for a numeric property an element may lack: undefined is falsy,
\* as 0 is
Prop(el, name) == IF name \in DOMAIN el THEN el[name] ELSE 0

\* { ...el, name: v }
With(el, name, v) ==
  IF name \in DOMAIN el THEN [el EXCEPT ![name] = v]
  ELSE [k \in DOMAIN el \cup {name} |-> IF k = name THEN v ELSE el[k]]

IdsOf(elements) == {elements[i].id : i \in 1..Len(elements)}

(***************************************************************************)
(* saveToHistory and the reducer's cases.                                  *)
(***************************************************************************)
\* saveToHistory without "future: []"
saveToHistory_keepsFuture(s) ==
  [s EXCEPT !.past = SliceLast(Append(s.past, s.current.elements), MAX_HISTORY_LENGTH)]

\* saveToHistory without ".slice(-MAX_HISTORY_LENGTH)"
saveToHistory_unbounded(s) ==
  [s EXCEPT !.past = Append(s.past, s.current.elements),
            !.future = << >>]

saveToHistory(s) ==
  [s EXCEPT !.past = SliceLast(Append(s.past, s.current.elements), MAX_HISTORY_LENGTH),
            !.future = << >>]

ADD_ELEMENT(s, payload) ==
  LET newState == saveToHistory(s) IN
  [newState EXCEPT !.current.elements = Append(newState.current.elements, payload),
                   !.current.hasUnsavedChanges = TRUE]

ADD_ELEMENTS(s, payload) ==
  LET newState == saveToHistory(s) IN
  [newState EXCEPT !.current.elements = newState.current.elements \o payload,
                   !.current.selectedIds = IdsOf(payload),
                   !.current.hasUnsavedChanges = TRUE]

\* REMOVE_ELEMENTS without the filter on selectedIds
REMOVE_ELEMENTS_keepsSelection(s, payload) ==
  LET newState == saveToHistory(s) IN
  [newState EXCEPT
     !.current.elements = SelectSeq(newState.current.elements,
                                    LAMBDA el : el.id \notin payload),
     !.current.hasUnsavedChanges = TRUE]

REMOVE_ELEMENTS(s, payload) ==
  LET newState == saveToHistory(s)
      idsToRemove == payload
  IN
  [newState EXCEPT
     !.current.elements = SelectSeq(newState.current.elements,
                                    LAMBDA el : el.id \notin idsToRemove),
     !.current.selectedIds = {id \in newState.current.selectedIds : id \notin idsToRemove},
     !.current.hasUnsavedChanges = TRUE]

\* UPDATE_ELEMENT snapshotting every intermediate update
UPDATE_ELEMENT_savesHistory(s, payload) ==
  LET newState == [s EXCEPT !.past = Append(s.past, s.current.elements)]
      patch(el) == IF el.id = payload.id THEN Spread(el, payload.updates) ELSE el
  IN
  [newState EXCEPT !.current.elements = Map(newState.current.elements, patch),
                   !.current.hasUnsavedChanges = TRUE]

\* UPDATE_ELEMENT patching every element instead of the one with the id
UPDATE_ELEMENT_patchesAll(s, payload) ==
  LET patch(el) == Spread(el, payload.updates) IN
  [s EXCEPT !.current.elements = Map(s.current.elements, patch),
            !.current.hasUnsavedChanges = TRUE]

UPDATE_ELEMENT_keepsSavedFlag(s, payload) ==
  LET patch(el) == IF el.id = payload.id THEN Spread(el, payload.updates) ELSE el IN
  [s EXCEPT !.current.elements = Map(s.current.elements, patch)]

UPDATE_ELEMENT(s, payload) ==
  LET patch(el) == IF el.id = payload.id THEN Spread(el, payload.updates) ELSE el IN
  [s EXCEPT !.current.elements = Map(s.current.elements, patch),
            !.current.hasUnsavedChanges = TRUE]

\* SET_SELECTION adding to the selection instead of replacing it
SET_SELECTION_union(s, payload) ==
  [s EXCEPT !.current.selectedIds = s.current.selectedIds \cup payload]

SET_SELECTION(s, payload) ==
  [s EXCEPT !.current.selectedIds = payload]

\* ADD_TO_SELECTION replacing the selection instead of adding to it
ADD_TO_SELECTION_replaces(s, payload) ==
  [s EXCEPT !.current.selectedIds = {payload}]

ADD_TO_SELECTION(s, payload) ==
  [s EXCEPT !.current.selectedIds = s.current.selectedIds \cup {payload}]

\* CLEAR_SELECTION that also drops the elements that were selected
CLEAR_SELECTION_dropsSelected(s) ==
  [s EXCEPT !.current.selectedIds = {},
            !.current.elements = SelectSeq(s.current.elements,
                                   LAMBDA el : el.id \notin s.current.selectedIds)]

CLEAR_SELECTION(s) ==
  [s EXCEPT !.current.selectedIds = {}]

\* SET_VIEWPORT treated as a durable action
SET_VIEWPORT_savesHistory(s, payload) ==
  LET newState == saveToHistory(s) IN
  [newState EXCEPT !.current.viewport = Spread(newState.current.viewport, payload)]

SET_VIEWPORT(s, payload) ==
  [s EXCEPT !.current.viewport = Spread(s.current.viewport, payload)]

SET_DRAGGING(s, payload) ==
  IF ~payload /\ s.current.isDragging
  THEN LET newState == saveToHistory(s) IN
       [newState EXCEPT !.current.isDragging = FALSE]
  ELSE [s EXCEPT !.current.isDragging = payload]

SET_PANNING(s, payload) ==
  [s EXCEPT !.current.isPanning = payload]

\* MERGE_IMAGES without the filter on the selected elements
MERGE_IMAGES_keepsSelected(s, payload) ==
  LET newState == saveToHistory(s) IN
  [newState EXCEPT
     !.current.elements = Append(newState.current.elements, payload),
     !.current.selectedIds = {payload.id},
     !.current.hasUnsavedChanges = TRUE]

MERGE_IMAGES(s, payload) ==
  LET newState == saveToHistory(s)
      selectedIds == newState.current.selectedIds
  IN
  [newState EXCEPT
     !.current.elements =
        Append(SelectSeq(newState.current.elements,
                         LAMBDA el : el.id \notin selectedIds),
               payload),
     !.current.selectedIds = {payload.id},
     !.current.hasUnsavedChanges = TRUE]

\* LOAD_STATE keeping the history stacks
LOAD_STATE_keepsHistory(s, payload) ==
  [s EXCEPT !.current =
     [Spread(s.current, payload) EXCEPT
        !.selectedIds = IF "selectedIds" \in DOMAIN payload
                        THEN payload.selectedIds ELSE {},
        !.hasUnsavedChanges = FALSE]]

LOAD_STATE(s, payload) ==
  [current |->
     [Spread(s.current, payload) EXCEPT
        !.selectedIds = IF "selectedIds" \in DOMAIN payload
                        THEN payload.selectedIds ELSE {},
        !.hasUnsavedChanges = FALSE],
   past |-> << >>,
   future |-> << >>]

\* MARK_SAVED that also discards the redo stack
MARK_SAVED_clearsFuture(s) ==
  [s EXCEPT !.current.hasUnsavedChanges = FALSE, !.future = << >>]

MARK_SAVED(s) ==
  [s EXCEPT !.current.hasUnsavedChanges = FALSE]

\* UNDO marking the document changed before its "past is empty" test
UNDO_marksUnsaved(s) ==
  IF Len(s.past) = 0 THEN [s EXCEPT !.current.hasUnsavedChanges = TRUE]
  ELSE LET previous == s.past[Len(s.past)]
           newPast == SliceButLast(s.past)
       IN
       [current |-> [s.current EXCEPT !.elements = previous,
                                      !.hasUnsavedChanges = TRUE],
        past |-> newPast,
        future |-> <<s.current.elements>> \o s.future]

UNDO(s) ==
  IF Len(s.past) = 0 THEN s
  ELSE LET previous == s.past[Len(s.past)]
           newPast == SliceButLast(s.past)
       IN
       [current |-> [s.current EXCEPT !.elements = previous,
                                      !.hasUnsavedChanges = TRUE],
        past |-> newPast,
        future |-> <<s.current.elements>> \o s.future]

\* REDO forgetting to push the elements it replaces onto past
REDO_dropsCurrent(s) ==
  IF Len(s.future) = 0 THEN s
  ELSE LET next == s.future[1]
           newFuture == Tail(s.future)
       IN
       [current |-> [s.current EXCEPT !.elements = next,
                                      !.hasUnsavedChanges = TRUE],
        past |-> s.past,
        future |-> newFuture]

REDO(s) ==
  IF Len(s.future) = 0 THEN s
  ELSE LET next == s.future[1]
           newFuture == Tail(s.future)
       IN
       [current |-> [s.current EXCEPT !.elements = next,
                                      !.hasUnsavedChanges = TRUE],
        past |-> Append(s.past, s.current.elements),
        future |-> newFuture]

ADD_TEXT(s, payload) ==
  LET newState == saveToHistory(s) IN
  [newState EXCEPT !.current.elements = Append(newState.current.elements, payload),
                   !.current.selectedIds = {payload.id},
                   !.current.hasUnsavedChanges = TRUE]

ROTATE_ELEMENTS(s, payload) ==
  LET newState == saveToHistory(s)
      idsSet == payload.ids
      rot(el) == IF el.id \in idsSet
                 THEN With(el, "rotation",
                           OrDefault(Prop(el, "rotation"), 0) + payload.angle)
                 ELSE el
  IN
  [newState EXCEPT !.current.elements = Map(newState.current.elements, rot),
                   !.current.hasUnsavedChanges = TRUE]

SCALE_ELEMENTS(s, payload) ==
  LET newState == saveToHistory(s)
      idsSet == payload.ids
      scl(el) == IF el.id \in idsSet
                 THEN LET newScale == OrDefault(Prop(el, "scale"), 1) * payload.scale IN
                      [With(el, "scale", newScale) EXCEPT
                         !.size = Size(el.originalSize.width * newScale,
                                       el.originalSize.height * newScale)]
                 ELSE el
  IN
  [newState EXCEPT !.current.elements = Map(newState.current.elements, scl),
                   !.current.hasUnsavedChanges = TRUE]

canvasReducer(s, action) ==
  CASE action.type = "ADD_ELEMENT" -> ADD_ELEMENT(s, action.payload)
    [] action.type = "ADD_ELEMENTS" -> ADD_ELEMENTS(s, action.payload)
    [] action.type = "REMOVE_ELEMENTS" -> REMOVE_ELEMENTS(s, action.payload)
    [] action.type = "UPDATE_ELEMENT" -> UPDATE_ELEMENT(s, action.payload)
    [] action.type = "SET_SELECTION" -> SET_SELECTION(s, action.payload)
    [] action.type = "ADD_TO_SELECTION" -> ADD_TO_SELECTION(s, action.payload)
    [] action.type = "CLEAR_SELECTION" -> CLEAR_SELECTION(s)
    [] action.type = "SET_VIEWPORT" -> SET_VIEWPORT(s, action.payload)
    [] action.type = "SET_DRAGGING" -> SET_DRAGGING(s, action.payload)
    [] action.type = "SET_PANNING" -> SET_PANNING(s, action.payload)
    [] action.type = "MERGE_IMAGES" -> MERGE_IMAGES(s, action.payload)
    [] action.type = "LOAD_STATE" -> LOAD_STATE(s, action.payload)
    [] action.type = "MARK_SAVED" -> MARK_SAVED(s)
    [] action.type = "UNDO" -> UNDO(s)
    [] action.type = "REDO" -> REDO(s)
    [] action.type = "ADD_TEXT" -> ADD_TEXT(s, action.payload)
    [] action.type = "ROTATE_ELEMENTS" -> ROTATE_ELEMENTS(s, action.payload)
    [] action.type = "SCALE_ELEMENTS" -> SCALE_ELEMENTS(s, action.payload)
    [] OTHER -> s

Act(type, payload) == [type |-> type, payload |-> payload]

(***************************************************************************)
(* The Canvas component: interaction mode and refs.  A ref or state that   *)
(* holds null is the empty sequence, one that holds a value v is <<v>>; a  *)
(* Map is a function on its keys.                                          *)
(***************************************************************************)
EmptyMap == << >>

initialCanvas ==
  [interactionMode |-> "none",
   interactionStart |-> << >>,
   lastMousePos |-> Point(0, 0),
   dragElementStartPos |-> EmptyMap,
   resizeCorner |-> "null",
   resizeStartSize |-> EmptyMap,
   resizeStartPos |-> EmptyMap,
   resizeStartFontSize |-> EmptyMap,
   rotateStartAngle |-> EmptyMap,
   rotateStartMouseAngle |-> 0,
   boxSelectStart |-> << >>,
   isSpacePressed |-> FALSE,
   isDuplicating |-> FALSE,
   duplicatedIds |-> EmptyMap,
   clipboard |-> << >>]

(***************************************************************************)
(* Inputs of the dispatches.                                               *)
(***************************************************************************)
RECURSIVE IdsIn(_)
\* ids of the elements of a sequence of snapshots
IdsIn(snapshots) ==
  IF snapshots = << >> THEN {}
  ELSE IdsOf(Head(snapshots)) \cup IdsIn(Tail(snapshots))

\* every id the store still refers to
LiveIds(s) ==
  IdsOf(s.current.elements) \cup s.current.selectedIds
    \cup IdsIn(s.past) \cup IdsIn(s.future)

\* generateId / crypto.randomUUID: an id that is in use nowhere
FreshId(used) ==
  CHOOSE n \in 1..(Cardinality(used) + 1) :
    n \notin used /\ \A m \in 1..(n - 1) : m \in used

RECURSIVE FreshIds(_, _)
FreshIds(used, n) ==
  IF n = 0 THEN << >>
  ELSE LET id == FreshId(used) IN <<id>> \o FreshIds(used \cup {id}, n - 1)

\* Alt-drag duplication: copies of the chosen elements under new ids
Copies_keepsId(s, ids) ==
  SelectSeq(s.current.elements, LAMBDA el : el.id \in ids)

Copies(s, ids) ==
  LET chosen == SelectSeq(s.current.elements, LAMBDA el : el.id \in ids)
      newIds == FreshIds(LiveIds(s), Len(chosen))
  IN [i \in 1..Len(chosen) |-> [chosen[i] EXCEPT !.id = newIds[i]]]

\* deserializeDraft
deserializeDraft(draft) ==
  [elements |-> draft.elements,
   viewport |-> draft.viewport,
   selectedIds |-> {},
   isDragging |-> FALSE,
   isPanning |-> FALSE,
   hasUnsavedChanges |-> FALSE]

\* serializeDraft keeping only the selected elements
serializeDraft_selectedOnly(s, now) ==
  [version |-> "1.0",
   metadata |-> [version |-> "1.0", createdAt |-> now, updatedAt |-> now,
                 elementCount |-> Len(s.elements)],
   viewport |-> s.viewport,
   elements |-> SelectSeq(s.elements, LAMBDA el : el.id \in s.selectedIds)]

\* now is new Date().toISOString()
serializeDraft(s, now) ==
  [version |-> "1.0",
   metadata |-> [version |-> "1.0", createdAt |-> now, updatedAt |-> now,
                 elementCount |-> Len(s.elements)],
   viewport |-> s.viewport,
   elements |-> s.elements]

\* the draft files a session opens
Drafts ==
  { [viewport |-> initialCanvasState.viewport, elements |-> << >>],
    [viewport |-> initialCanvasState.viewport, elements |-> <<ImageElement(1, P0)>>] }

\* Spec explores the history stack to depth MaxPast
CanPush == Len(state.past) < MaxPast
HasRoom(n) ==
  /\ Len(state.current.elements) + n <= MaxElements
  /\ Cardinality(LiveIds(state)) + n <= MaxIds
Ids == IdsOf(state.current.elements)
ElementById(s, id) ==
  CHOOSE el \in {s.current.elements[i] : i \in 1..Len(s.current.elements)} :
    el.id = id

\* the payloads the dispatches of Spec draw from
NewImages(s) == {ImageElement(FreshId(LiveIds(s)), P0)}
NewTexts(s) == {TextElement(FreshId(LiveIds(s)), P0, 0)}
IdSets(s) == SUBSET IdsOf(s.current.elements)
CopySets(s) ==
  {Copies(s, ids) : ids \in {i \in IdSets(s) \ {{}} :
      /\ Len(s.current.elements) + Cardinality(i) <= MaxElements
      /\ Cardinality(LiveIds(s)) + Cardinality(i) <= MaxIds}}
Updates(s) ==
  {[id |-> id, updates |-> [position |-> p]] :
     id \in IdsOf(s.current.elements), p \in Positions}
Rotations(s) ==
  {[ids |-> ids, angle |-> 90] :
     ids \in {i \in IdSets(s) \ {{}} : \A id \in i : ElementById(s, id).rotation = 0}}
Scalings(s) ==
  {[ids |-> ids, scale |-> 2] :
     ids \in {i \in IdSets(s) \ {{}} : \A id \in i : ElementById(s, id).scale = 1}}

(***************************************************************************)
(* dispatch(action): one action per action type.                           *)
(***************************************************************************)
Dispatch(action) ==
  /\ state' = canvasReducer(state, action)
  /\ UNCHANGED <<canvas, merges, uploads, saved>>

DispatchAddElement ==
  /\ CanPush /\ HasRoom(1)
  /\ \E payload \in NewImages(state) : Dispatch(Act("ADD_ELEMENT", payload))

DispatchAddElements ==
  /\ CanPush
  /\ \E payload \in CopySets(state) : Dispatch(Act("ADD_ELEMENTS", payload))

DispatchRemoveElements ==
  /\ CanPush
  /\ \E payload \in IdSets(state) : Dispatch(Act("REMOVE_ELEMENTS", payload))

DispatchUpdateElement ==
  \E payload \in Updates(state) : Dispatch(Act("UPDATE_ELEMENT", payload))

DispatchSetSelection ==
  \E payload \in IdSets(state) : Dispatch(Act("SET_SELECTION", payload))

DispatchAddToSelection ==
  \E payload \in Ids : Dispatch(Act("ADD_TO_SELECTION", payload))

DispatchClearSelection == Dispatch(Act("CLEAR_SELECTION", {}))

DispatchSetDragging ==
  \E payload \in BOOLEAN :
    /\ (~payload /\ state.current.isDragging) => CanPush
    /\ Dispatch(Act("SET_DRAGGING", payload))

DispatchMergeImages ==
  /\ CanPush
  /\ Cardinality(LiveIds(state)) + 1 <= MaxIds
  /\ \E payload \in NewImages(state) : Dispatch(Act("MERGE_IMAGES", payload))

DispatchLoadState ==
  \E draft \in Drafts : Dispatch(Act("LOAD_STATE", deserializeDraft(draft)))

DispatchUndo == Dispatch(Act("UNDO", {}))

DispatchRedo == Dispatch(Act("REDO", {}))

DispatchAddText ==
  /\ CanPush /\ HasRoom(1)
  /\ \E payload \in NewTexts(state) : Dispatch(Act("ADD_TEXT", payload))

DispatchRotateElements ==
  /\ CanPush
  /\ \E payload \in Rotations(state) : Dispatch(Act("ROTATE_ELEMENTS", payload))

DispatchScaleElements ==
  /\ CanPush
  /\ \E payload \in Scalings(state) : Dispatch(Act("SCALE_ELEMENTS", payload))

Init ==
  /\ state = initialStateWithHistory
  /\ canvas = initialCanvas
  /\ merges = << >>
  /\ uploads = << >>
  /\ saved = << >>

\* The dispatches that read or write elements, selection, isDragging and the
\* history stacks.  SET_VIEWPORT, SET_PANNING and MARK_SAVED write only
\* viewport, isPanning and hasUnsavedChanges, which no case of the reducer reads.
Next ==
  \/ DispatchAddElement
  \/ DispatchAddElements
  \/ DispatchRemoveElements
  \/ DispatchUpdateElement
  \/ DispatchSetSelection
  \/ DispatchAddToSelection
  \/ DispatchClearSelection
  \/ DispatchSetDragging
  \/ DispatchMergeImages
  \/ DispatchLoadState
  \/ DispatchUndo
  \/ DispatchRedo
  \/ DispatchAddText
  \/ DispatchRotateElements
  \/ DispatchScaleElements

Spec == Init /\ [][Next]_vars

(***************************************************************************)
(* SpecHistory: the same store driven to the full depth of the history     *)
(* stack (MAX_HISTORY_LENGTH) by uploads, element clicks (a drag gesture   *)
(* without movement), undo and redo.                                       *)
(***************************************************************************)
HistoryAddElement ==
  /\ Len(state.current.elements) < MaxDeepElements
  /\ \E payload \in NewImages(state) : Dispatch(Act("ADD_ELEMENT", payload))

HistorySetDragging ==
  \E payload \in BOOLEAN : Dispatch(Act("SET_DRAGGING", payload))

HistoryUndo == Dispatch(Act("UNDO", {}))

HistoryRedo == Dispatch(Act("REDO", {}))

NextHistory ==
  \/ HistoryAddElement
  \/ HistorySetDragging
  \/ HistoryUndo
  \/ HistoryRedo

SpecHistory == Init /\ [][NextHistory]_vars

(***************************************************************************)
(* SpecStore: every action type of the reducer, the viewport, panning and  *)
(* saved-flag actions included.                                            *)
(***************************************************************************)
\* the viewport patches dispatched: a pan, a zoom, and both at once
ViewportPatches ==
  {[offset |-> P1], [scale |-> 2], [offset |-> P0, scale |-> 1]}

DispatchSetViewport ==
  \E payload \in ViewportPatches : Dispatch(Act("SET_VIEWPORT", payload))

DispatchSetPanning ==
  \E payload \in BOOLEAN : Dispatch(Act("SET_PANNING", payload))

DispatchMarkSaved == Dispatch(Act("MARK_SAVED", {}))

NextStore ==
  \/ DispatchAddElement
  \/ DispatchAddElements
  \/ DispatchRemoveElements
  \/ DispatchUpdateElement
  \/ DispatchSetSelection
  \/ DispatchAddToSelection
  \/ DispatchClearSelection
  \/ DispatchSetViewport
  \/ DispatchSetDragging
  \/ DispatchSetPanning
  \/ DispatchMergeImages
  \/ DispatchLoadState
  \/ DispatchMarkSaved
  \/ DispatchUndo
  \/ DispatchRedo
  \/ DispatchAddText
  \/ DispatchRotateElements
  \/ DispatchScaleElements

SpecStore == Init /\ [][NextStore]_vars

(***************************************************************************)
(* A drag gesture as the Canvas component dispatches it: SET_DRAGGING(true)*)
(* at mouse down, one UPDATE_ELEMENT per pointer move, SET_DRAGGING(false) *)
(* at mouse up.                                                            *)
(***************************************************************************)
RECURSIVE ApplyUpdates(_, _, _)
ApplyUpdates(s, updates, i) ==
  IF i > Len(updates) THEN s
  ELSE ApplyUpdates(UPDATE_ELEMENT(s, updates[i]), updates, i + 1)

UpdateSeqs(s) == UNION {[1..n -> Updates(s)] : n \in 0..MaxMoves}

DragGesture(s, updates) ==
  SET_DRAGGING(ApplyUpdates(SET_DRAGGING(s, TRUE), updates, 1), FALSE)

\* the durable mutations of a state, each with the payloads of Spec
DurableResults(s) ==
  {ADD_ELEMENT(s, payload) : payload \in NewImages(s)}
    \cup {ADD_ELEMENTS(s, payload) : payload \in CopySets(s)}
    \cup {REMOVE_ELEMENTS(s, payload) : payload \in IdSets(s)}
    \cup {MERGE_IMAGES(s, payload) : payload \in NewImages(s)}
    \cup {ADD_TEXT(s, payload) : payload \in NewTexts(s)}
    \cup {ROTATE_ELEMENTS(s, payload) : payload \in Rotations(s)}
    \cup {SCALE_ELEMENTS(s, payload) : payload \in Scalings(s)}

DragResults(s) == {DragGesture(s, updates) : updates \in UpdateSeqs(s)}

History(s) == [elements |-> s.current.elements, past |-> s.past, future |-> s.future]

(***************************************************************************)
(* Geometry used by the pointer handlers.  Coordinates are integers and    *)
(* angles are whole degrees; rotations are multiples of 90 degrees, for    *)
(* which cos and sin are exact.                                            *)
(***************************************************************************)
cornerSize == 12
handleRadius == 10

Abs(n) == IF n < 0 THEN 0 - n ELSE n
Min(a, b) == IF a < b THEN a ELSE b
Max(a, b) == IF a > b THEN a ELSE b

\* Math.cos / Math.sin of an angle given in degrees
cosDeg(deg) ==
  CASE deg % 360 = 0 -> 1
    [] deg % 360 = 90 -> 0
    [] deg % 360 = 180 -> 0 - 1
    [] deg % 360 = 270 -> 0

sinDeg(deg) ==
  CASE deg % 360 = 0 -> 0
    [] deg % 360 = 90 -> 1
    [] deg % 360 = 180 -> 0
    [] deg % 360 = 270 -> 0 - 1

\* Math.atan2(y, x) in degrees, on the axes and the diagonals
AngleDefined(y, x) == x = 0 \/ y = 0 \/ Abs(x) = Abs(y)

Atan2Deg(y, x) ==
  CASE y = 0 /\ x >= 0 -> 0
    [] y = 0 /\ x < 0 -> 180
    [] x = 0 /\ y > 0 -> 90
    [] x = 0 /\ y < 0 -> 0 - 90
    [] x > 0 /\ y = x -> 45
    [] x < 0 /\ y = 0 - x -> 135
    [] x < 0 /\ y = x -> 0 - 135
    [] x > 0 /\ y = 0 - x -> 0 - 45

\* screenToCanvas; the division is exact for the viewports of this model
screenToCanvas(screenPoint, viewport) ==
  Point((screenPoint.x - viewport.offset.x) \div viewport.scale,
        (screenPoint.y - viewport.offset.y) \div viewport.scale)

canvasToScreen(canvasPoint, viewport) ==
  Point(canvasPoint.x * viewport.scale + viewport.offset.x,
        canvasPoint.y * viewport.scale + viewport.offset.y)

\* centre of an element on the screen
ScreenCenter(element, viewport) ==
  LET screenPos == canvasToScreen(element.position, viewport)
      screenWidth == element.size.width * viewport.scale
      screenHeight == element.size.height * viewport.scale
  IN Point(screenPos.x + screenWidth \div 2, screenPos.y + screenHeight \div 2)

\* the mouse position in the element's own, unrotated coordinate system
LocalPoint(mousePos, element, viewport) ==
  LET rotation == OrDefault(Prop(element, "rotation"), 0)
      center == ScreenCenter(element, viewport)
      cos == cosDeg(0 - rotation)
      sin == sinDeg(0 - rotation)
      relX == mousePos.x - center.x
      relY == mousePos.y - center.y
  IN Point(relX * cos - relY * sin, relX * sin + relY * cos)

getCornerAtPoint(mousePos, element, viewport) ==
  LET screenWidth == element.size.width * viewport.scale
      screenHeight == element.size.height * viewport.scale
      corners ==
        << [name |-> "topLeft", x |-> 0 - screenWidth \div 2, y |-> 0 - screenHeight \div 2],
           [name |-> "topRight", x |-> screenWidth \div 2, y |-> 0 - screenHeight \div 2],
           [name |-> "bottomLeft", x |-> 0 - screenWidth \div 2, y |-> screenHeight \div 2],
           [name |-> "bottomRight", x |-> screenWidth \div 2, y |-> screenHeight \div 2] >>
      local == LocalPoint(mousePos, element, viewport)
      hits == {i \in 1..4 : /\ Abs(local.x - corners[i].x) < cornerSize
                            /\ Abs(local.y - corners[i].y) < cornerSize}
  IN IF hits = {} THEN "null"
     ELSE corners[CHOOSE i \in hits : \A j \in hits : i <= j].name

isOnRotationHandle(mousePos, element, viewport) ==
  LET screenHeight == element.size.height * viewport.scale
      handleY == 0 - screenHeight \div 2 - 25
      local == LocalPoint(mousePos, element, viewport)
      dx == local.x - 0
      dy == local.y - handleY
  IN dx * dx + dy * dy < handleRadius * handleRadius

isPointInElement(point, element) ==
  /\ point.x >= element.position.x
  /\ point.x <= element.position.x + element.size.width
  /\ point.y >= element.position.y
  /\ point.y <= element.position.y + element.size.height

\* getElementAtPoint without the sort: the first hit in array order
getElementAtPoint_unsorted(screenPoint, elements, viewport) ==
  LET canvasPoint == screenToCanvas(screenPoint, viewport)
      hits == {i \in 1..Len(elements) : isPointInElement(canvasPoint, elements[i])}
      first == CHOOSE i \in hits : \A j \in hits : i <= j
  IN IF hits = {} THEN << >> ELSE <<elements[first]>>

\* the topmost element under a screen point, << >> for null; the sort by
\* descending zIndex is stable
getElementAtPoint(screenPoint, elements, viewport) ==
  LET canvasPoint == screenToCanvas(screenPoint, viewport)
      hits == {i \in 1..Len(elements) : isPointInElement(canvasPoint, elements[i])}
      first == CHOOSE i \in hits : \A j \in hits :
                 \/ elements[j].zIndex < elements[i].zIndex
                 \/ elements[j].zIndex = elements[i].zIndex /\ i <= j
  IN IF hits = {} THEN << >> ELSE <<elements[first]>>

\* getElementsInRect without the normalisation of the corners
getElementsInRect_asGiven(screenRect, elements, viewport) ==
  LET topLeft == screenToCanvas(Point(screenRect.x, screenRect.y), viewport)
      bottomRight == screenToCanvas(Point(screenRect.x + screenRect.width,
                                          screenRect.y + screenRect.height), viewport)
      inside(element) ==
        ~(\/ element.position.x > bottomRight.x
          \/ element.position.x + element.size.width < topLeft.x
          \/ element.position.y > bottomRight.y
          \/ element.position.y + element.size.height < topLeft.y)
  IN SelectSeq(elements, inside)

getElementsInRect(screenRect, elements, viewport) ==
  LET topLeft == screenToCanvas(Point(screenRect.x, screenRect.y), viewport)
      bottomRight == screenToCanvas(Point(screenRect.x + screenRect.width,
                                          screenRect.y + screenRect.height), viewport)
      rectX == Min(topLeft.x, bottomRight.x)
      rectY == Min(topLeft.y, bottomRight.y)
      rectRight == rectX + Abs(bottomRight.x - topLeft.x)
      rectBottom == rectY + Abs(bottomRight.y - topLeft.y)
      inside(element) ==
        ~(\/ element.position.x > rectRight
          \/ element.position.x + element.size.width < rectX
          \/ element.position.y > rectBottom
          \/ element.position.y + element.size.height < rectY)
  IN SelectSeq(elements, inside)

(***************************************************************************)
(* The pointer and key handlers of the Canvas component.  A handler reads  *)
(* the store state s of the render it was created in and the component     *)
(* state c, and returns the store state after its dispatches, applied in   *)
(* order, together with the new component state.                           *)
(***************************************************************************)
RECURSIVE DispatchFrom(_, _, _)
DispatchFrom(s, actions, i) ==
  IF i > Len(actions) THEN s
  ELSE DispatchFrom(canvasReducer(s, actions[i]), actions, i + 1)

DispatchAll(s, actions) == DispatchFrom(s, actions, 1)

RECURSIVE KeysOf(_)
\* the keys of a Map in a fixed order; the dispatches made per key are
\* UPDATE_ELEMENTs of distinct ids
KeysOf(keys) ==
  IF keys = {} THEN << >>
  ELSE LET k == CHOOSE k \in keys : \A other \in keys : k <= other
       IN <<k>> \o KeysOf(keys \ {k})

Outcome(s, c) == [state |-> s, canvas |-> c]

SelectedElements(st) ==
  SelectSeq(st.elements, LAMBDA el : el.id \in st.selectedIds)

\* what a press at mousePos grabs of one selected element: its rotation
\* handle, else one of its corners, else nothing
ControlAt(mousePos, element, viewport) ==
  LET center == ScreenCenter(element, viewport)
      corner == getCornerAtPoint(mousePos, element, viewport)
  IN IF isOnRotationHandle(mousePos, element, viewport)
     THEN [mode |-> "rotate", corner |-> "null",
           angle |-> Atan2Deg(mousePos.y - center.y, mousePos.x - center.x)]
     ELSE IF corner # "null"
     THEN [mode |-> "resize", corner |-> corner, angle |-> 0]
     ELSE [mode |-> "none", corner |-> "null", angle |-> 0]

ControlsAt(mousePos, st) ==
  LET selected == SelectedElements(st) IN
  {ControlAt(mousePos, selected[i], st.viewport) : i \in 1..Len(selected)}
    \ {[mode |-> "none", corner |-> "null", angle |-> 0]}

handleMouseDown(s, c, e) ==
  LET st == s.current
      mousePos == e.pos
      c0 == [c EXCEPT !.lastMousePos = mousePos, !.interactionStart = <<mousePos>>]
      present == IdsOf(SelectedElements(st))
      controls == ControlsAt(mousePos, st)
      control == CHOOSE ctl \in controls : TRUE
      clicked == getElementAtPoint(mousePos, st.elements, st.viewport)
      clickedElement == clicked[1]
      select ==
        IF e.shiftKey
        THEN IF clickedElement.id \in st.selectedIds
             THEN <<Act("SET_SELECTION", st.selectedIds \ {clickedElement.id})>>
             ELSE <<Act("ADD_TO_SELECTION", clickedElement.id)>>
        ELSE IF clickedElement.id \notin st.selectedIds
             THEN <<Act("SET_SELECTION", {clickedElement.id})>>
             ELSE << >>
      idsToMove == IF clickedElement.id \in st.selectedIds
                   THEN st.selectedIds ELSE {clickedElement.id}
      originals == SelectSeq(st.elements, LAMBDA el : el.id \in idsToMove)
      newElements == Copies(s, idsToMove)
      duplicate == IF e.altKey /\ Len(newElements) > 0
                   THEN <<Act("ADD_ELEMENTS", newElements)>> ELSE << >>
      c1 == IF e.altKey
            THEN [c0 EXCEPT
                    !.isDuplicating = TRUE,
                    !.duplicatedIds =
                      [id \in IdsOf(originals) |->
                         newElements[CHOOSE i \in 1..Len(originals) : originals[i].id = id].id]]
            ELSE c0
  IN
  IF e.button = 1 \/ (e.button = 0 /\ c.isSpacePressed)
  THEN Outcome(SET_PANNING(s, TRUE), [c0 EXCEPT !.interactionMode = "pan"])
  ELSE IF e.button # 0
  THEN Outcome(s, c0)
  ELSE IF controls # {} /\ control.mode = "rotate"
  THEN Outcome(s, [c0 EXCEPT
         !.interactionMode = "rotate",
         !.rotateStartMouseAngle = control.angle,
         !.rotateStartAngle =
           [id \in present |-> OrDefault(Prop(ElementById(s, id), "rotation"), 0)]])
  ELSE IF controls # {}
  THEN Outcome(s, [c0 EXCEPT
         !.interactionMode = "resize",
         !.resizeCorner = control.corner,
         !.resizeStartSize = [id \in present |-> ElementById(s, id).size],
         !.resizeStartPos = [id \in present |-> ElementById(s, id).position],
         !.resizeStartFontSize =
           [id \in {i \in present : ElementById(s, i).type = "text"} |->
              ElementById(s, id).fontSize]])
  ELSE IF clicked # << >>
  THEN Outcome(
         DispatchAll(s, select \o duplicate \o <<Act("SET_DRAGGING", TRUE)>>),
         [c1 EXCEPT
            !.interactionMode = "drag",
            !.dragElementStartPos =
              [id \in IdsOf(originals) |-> ElementById(s, id).position]])
  ELSE Outcome(
         IF e.shiftKey THEN s ELSE CLEAR_SELECTION(s),
         [c0 EXCEPT !.interactionMode = "boxSelect", !.boxSelectStart = <<mousePos>>])

\* the size a resize gives an element whose start size is square: the scale
\* factor (diag + delta * sqrt 2) / diag is then (width + delta) / width,
\* clamped to [0.1, 10]
Resized(startSize, delta) ==
  LET side(length) == Max(length \div 10, Min(length * 10, length + delta))
  IN Size(side(startSize.width), side(startSize.height))

ResizeDelta(corner, totalDx, totalDy) ==
  CASE corner = "bottomRight" -> (totalDx + totalDy) \div 2
    [] corner = "topLeft" -> (0 - totalDx - totalDy) \div 2
    [] corner = "topRight" -> (totalDx - totalDy) \div 2
    [] corner = "bottomLeft" -> (0 - totalDx + totalDy) \div 2

handleMouseMove(s, c, e) ==
  LET st == s.current
      mousePos == e.pos
      dx == mousePos.x - c.lastMousePos.x
      dy == mousePos.y - c.lastMousePos.y
      startPos == c.interactionStart[1]
      totalDx == (mousePos.x - startPos.x) \div st.viewport.scale
      totalDy == (mousePos.y - startPos.y) \div st.viewport.scale
      moved(start) == Point(start.x + totalDx, start.y + totalDy)
      dragged == KeysOf(DOMAIN c.dragElementStartPos)
      duplicated == KeysOf(DOMAIN c.duplicatedIds \cap DOMAIN c.dragElementStartPos)
      dragUpdates ==
        IF c.isDuplicating
        THEN [i \in 1..Len(duplicated) |->
                Act("UPDATE_ELEMENT",
                    [id |-> c.duplicatedIds[duplicated[i]],
                     updates |-> [position |-> moved(c.dragElementStartPos[duplicated[i]])]])]
        ELSE [i \in 1..Len(dragged) |->
                Act("UPDATE_ELEMENT",
                    [id |-> dragged[i],
                     updates |-> [position |-> moved(c.dragElementStartPos[dragged[i]])]])]
      corner == c.resizeCorner
      delta == ResizeDelta(corner, totalDx, totalDy)
      resized == KeysOf(DOMAIN c.resizeStartSize \cap DOMAIN c.resizeStartPos)
      resizeUpdate(id) ==
        LET startSize == c.resizeStartSize[id]
            startPosition == c.resizeStartPos[id]
            newSize == Resized(startSize, delta)
            newX == IF corner \in {"topLeft", "bottomLeft"}
                    THEN startPosition.x + startSize.width - newSize.width
                    ELSE startPosition.x
            newY == IF corner \in {"topLeft", "topRight"}
                    THEN startPosition.y + startSize.height - newSize.height
                    ELSE startPosition.y
            base == [size |-> newSize, position |-> Point(newX, newY)]
        IN IF id \in DOMAIN c.resizeStartFontSize
           THEN Spread(base,
                  [fontSize |->
                     (2 * c.resizeStartFontSize[id] * newSize.width + startSize.width)
                       \div (2 * startSize.width)])
           ELSE base
      resizeUpdates ==
        [i \in 1..Len(resized) |->
           Act("UPDATE_ELEMENT", [id |-> resized[i], updates |-> resizeUpdate(resized[i])])]
      selectedElements == SelectedElements(st)
      center == ScreenCenter(selectedElements[1], st.viewport)
      currentAngle == Atan2Deg(mousePos.y - center.y, mousePos.x - center.x)
      deltaAngle == currentAngle - c.rotateStartMouseAngle
      rotated == KeysOf(DOMAIN c.rotateStartAngle)
      rotateUpdates ==
        [i \in 1..Len(rotated) |->
           Act("UPDATE_ELEMENT",
               [id |-> rotated[i],
                updates |-> [rotation |-> c.rotateStartAngle[rotated[i]] + deltaAngle]])]
      boxStart == c.boxSelectStart[1]
      box == [x |-> Min(boxStart.x, mousePos.x),
              y |-> Min(boxStart.y, mousePos.y),
              width |-> Abs(mousePos.x - boxStart.x),
              height |-> Abs(mousePos.y - boxStart.y)]
      after ==
        IF c.interactionMode = "pan"
        THEN SET_VIEWPORT(s, [offset |-> Point(st.viewport.offset.x + dx,
                                               st.viewport.offset.y + dy)])
        ELSE IF c.interactionMode = "drag" /\ c.interactionStart # << >>
        THEN DispatchAll(s, dragUpdates)
        ELSE IF /\ c.interactionMode = "resize"
                /\ c.interactionStart # << >>
                /\ c.resizeCorner # "null"
        THEN DispatchAll(s, resizeUpdates)
        ELSE IF c.interactionMode = "rotate"
        THEN IF Len(selectedElements) > 0 THEN DispatchAll(s, rotateUpdates) ELSE s
        ELSE IF c.interactionMode = "boxSelect" /\ c.boxSelectStart # << >>
        THEN SET_SELECTION(s, IdsOf(getElementsInRect(box, st.elements, st.viewport)))
        ELSE s
  IN Outcome(after, [c EXCEPT !.lastMousePos = mousePos])

handleMouseUp(s, c) ==
  LET mode == c.interactionMode
      s1 == IF mode = "pan" THEN SET_PANNING(s, FALSE) ELSE s
      s2 == IF mode = "drag" THEN SET_DRAGGING(s1, FALSE) ELSE s1
      c2 == IF mode = "drag"
            THEN [c EXCEPT !.dragElementStartPos = EmptyMap,
                           !.isDuplicating = FALSE,
                           !.duplicatedIds = EmptyMap]
            ELSE c
      c3 == IF mode = "resize"
            THEN [c2 EXCEPT !.resizeStartSize = EmptyMap,
                            !.resizeStartPos = EmptyMap,
                            !.resizeStartFontSize = EmptyMap,
                            !.resizeCorner = "null"]
            ELSE c2
      c4 == IF mode = "rotate" THEN [c3 EXCEPT !.rotateStartAngle = EmptyMap] ELSE c3
      c5 == IF mode = "boxSelect" THEN [c4 EXCEPT !.boxSelectStart = << >>] ELSE c4
  IN Outcome(s2, [c5 EXCEPT !.interactionMode = "none", !.interactionStart = << >>])

handleKeyDown(s, c, e) ==
  LET st == s.current
      canUndo == Len(s.past) > 0
      canRedo == Len(s.future) > 0
      modifier == e.ctrlKey \/ e.metaKey
      removal == IF e.key \in {"Delete", "Backspace"} /\ st.selectedIds # {}
                 THEN <<Act("REMOVE_ELEMENTS", st.selectedIds)>> ELSE << >>
      undo == IF modifier /\ e.key = "z" /\ ~e.shiftKey /\ canUndo
              THEN <<Act("UNDO", {})>> ELSE << >>
      redo == IF modifier /\ (e.key = "y" \/ (e.key = "z" /\ e.shiftKey)) /\ canRedo
              THEN <<Act("REDO", {})>> ELSE << >>
      copied == modifier /\ e.key = "c" /\ st.selectedIds # {}
      pasted == modifier /\ e.key = "v" /\ Len(c.clipboard) > 0
      newIds == FreshIds(LiveIds(s) \cup IdsOf(c.clipboard), Len(c.clipboard))
      newElements == [i \in 1..Len(c.clipboard) |->
                        [c.clipboard[i] EXCEPT
                           !.id = newIds[i],
                           !.position = Point(c.clipboard[i].position.x + 20,
                                              c.clipboard[i].position.y + 20)]]
      paste == IF pasted THEN <<Act("ADD_ELEMENTS", newElements)>> ELSE << >>
      pressed == IF e.code = "Space" /\ ~e.repeat
                 THEN [c EXCEPT !.isSpacePressed = TRUE] ELSE c
  IN Outcome(DispatchAll(s, removal \o undo \o redo \o paste),
             [pressed EXCEPT !.clipboard = IF copied THEN SelectedElements(st)
                                           ELSE IF pasted THEN newElements
                                           ELSE @])

handleKeyUp(s, c, e) ==
  Outcome(s, IF e.code = "Space" THEN [c EXCEPT !.isSpacePressed = FALSE] ELSE c)

(***************************************************************************)
(* SpecCanvas: the store driven by the Canvas component.  A draft is       *)
(* opened, then the pointer is pressed, moved and released over a grid of  *)
(* screen points that holds the centres, corners and rotation handles of   *)
(* the elements, and the space key is pressed and released.  A button is   *)
(* pressed only while no gesture is in progress.                           *)
(***************************************************************************)
\* centre, corners and rotation handles of a 100 x 100 element at P0 or P1
ScreenPoints ==
  {Point(50, 50), Point(100, 100), Point(150, 150),
   Point(50, 0 - 25), Point(125, 50)}

MouseEvents ==
  [pos : ScreenPoints, button : {0, 1}, shiftKey : BOOLEAN, altKey : BOOLEAN]

KeyEvent(code, key, ctrlKey) ==
  [code |-> code, key |-> key, ctrlKey |-> ctrlKey, metaKey |-> FALSE,
   shiftKey |-> FALSE, repeat |-> FALSE]

\* the key events of SpecCanvas: the space key
KeyEvents ==
  {KeyEvent("Space", " ", FALSE)}

\* the draft SpecCanvas opens: one uploaded image
CanvasDrafts ==
  { [viewport |-> initialCanvasState.viewport,
     elements |-> <<ImageElement(1, P0)>>] }

CanvasSizes == {Size(100, 100), Size(150, 150)}
CanvasRotations == {0, 90}
CanvasOffsets == {P0, P1}

\* the part of the state space SpecCanvas explores
InCanvasBounds(s) ==
  LET st == s.current IN
  /\ Len(s.past) <= MaxCanvasPast
  /\ Len(st.elements) <= MaxElements
  /\ Cardinality(LiveIds(s)) <= MaxIds
  /\ st.viewport.offset \in CanvasOffsets
  /\ \A i \in 1..Len(st.elements) :
       /\ st.elements[i].position \in Positions
       /\ st.elements[i].size \in CanvasSizes
       /\ st.elements[i].rotation \in CanvasRotations

\* the presses whose outcome the model computes: the angle of a grabbed
\* rotation handle lies on an axis or a diagonal, and the selected elements
\* under the pointer offer one control, so that the iteration order of
\* selectedIds does not matter
MouseDownDefined(s, e) ==
  LET st == s.current
      selected == SelectedElements(st)
  IN /\ \A i \in 1..Len(selected) :
          isOnRotationHandle(e.pos, selected[i], st.viewport) =>
            LET center == ScreenCenter(selected[i], st.viewport) IN
            AngleDefined(e.pos.y - center.y, e.pos.x - center.x)
     /\ Cardinality(ControlsAt(e.pos, st)) <= 1

\* the moves whose outcome the model computes: a resize of square elements
\* by a whole number of pixels, a rotation to an axis or a diagonal
MouseMoveDefined(s, c, e) ==
  LET st == s.current
      selected == SelectedElements(st)
  IN /\ (c.interactionMode = "resize" /\ c.interactionStart # << >>) =>
          LET totalDx == e.pos.x - c.interactionStart[1].x
              totalDy == e.pos.y - c.interactionStart[1].y
          IN /\ (totalDx + totalDy) % 2 = 0
             /\ \A id \in DOMAIN c.resizeStartSize :
                  c.resizeStartSize[id].width = c.resizeStartSize[id].height
     /\ (c.interactionMode = "rotate" /\ Len(selected) > 0) =>
          LET center == ScreenCenter(selected[1], st.viewport) IN
          AngleDefined(e.pos.y - center.y, e.pos.x - center.x)

Handle(outcome) ==
  /\ InCanvasBounds(outcome.state)
  /\ state' = outcome.state
  /\ canvas' = outcome.canvas
  /\ UNCHANGED <<merges, uploads, saved>>

OpenDraft ==
  /\ \E draft \in CanvasDrafts : state' = LOAD_STATE(state, deserializeDraft(draft))
  /\ UNCHANGED <<canvas, merges, uploads, saved>>

MouseDown ==
  \E e \in MouseEvents :
    /\ canvas.interactionMode = "none"
    /\ MouseDownDefined(state, e)
    /\ Handle(handleMouseDown(state, canvas, e))

MouseMove ==
  \E e \in MouseEvents :
    /\ e.button = 0 /\ ~e.shiftKey /\ ~e.altKey
    /\ MouseMoveDefined(state, canvas, e)
    /\ Handle(handleMouseMove(state, canvas, e))

MouseUp == Handle(handleMouseUp(state, canvas))

KeyDown == \E e \in KeyEvents : Handle(handleKeyDown(state, canvas, e))

KeyUp == \E e \in KeyEvents : Handle(handleKeyUp(state, canvas, e))

NextCanvas ==
  \/ OpenDraft
  \/ MouseDown
  \/ MouseMove
  \/ MouseUp
  \/ KeyDown
  \/ KeyUp

SpecCanvas == Init /\ [][NextCanvas]_vars

(***************************************************************************)
(* SpecHitTest: a draft of two overlapping images is opened, the pointer   *)
(* is pressed and released over them and drags selection boxes, so that    *)
(* the hit test and the box selection run on elements that share points    *)
(* and differ in zIndex.                                                   *)
(***************************************************************************)
\* two images that overlap in [50, 100] x [50, 100], in each stacking order,
\* seen through a viewport at the origin or panned
HitDrafts ==
  { [viewport |-> [offset |-> offset, scale |-> 1],
     elements |-> <<[ImageElement(1, P0) EXCEPT !.zIndex = z[1]],
                    [ImageElement(2, P1) EXCEPT !.zIndex = z[2]]>>] :
      offset \in CanvasOffsets, z \in {<<0, 0>>, <<1, 0>>, <<0, 1>>} }

OpenHitDraft ==
  /\ \E draft \in HitDrafts : state' = LOAD_STATE(state, deserializeDraft(draft))
  /\ UNCHANGED <<canvas, merges, uploads, saved>>

\* the pointer moves while a selection box is open
BoxMove ==
  \E e \in MouseEvents :
    /\ e.button = 0 /\ ~e.shiftKey /\ ~e.altKey
    /\ canvas.interactionMode = "boxSelect"
    /\ Handle(handleMouseMove(state, canvas, e))

NextHitTest ==
  \/ OpenHitDraft
  \/ MouseDown
  \/ BoxMove
  \/ MouseUp

SpecHitTest == Init /\ [][NextHitTest]_vars

(***************************************************************************)
(* A completed gesture: a press of the left button, without Alt, that      *)
(* starts a drag, a resize or a rotation, pointer moves, and the release.  *)
(***************************************************************************)
Presses == {e \in MouseEvents : e.button = 0 /\ ~e.altKey}
Moves == {e \in MouseEvents : e.button = 0 /\ ~e.shiftKey /\ ~e.altKey}
MoveSeqs == UNION {[1..n -> Moves] : n \in 0..MaxMoves}

RECURSIVE MovesDefined(_, _, _)
MovesDefined(o, moves, i) ==
  \/ i > Len(moves)
  \/ /\ MouseMoveDefined(o.state, o.canvas, moves[i])
     /\ MovesDefined(handleMouseMove(o.state, o.canvas, moves[i]), moves, i + 1)

RECURSIVE AfterMoves(_, _, _)
AfterMoves(o, moves, i) ==
  IF i > Len(moves) THEN o
  ELSE AfterMoves(handleMouseMove(o.state, o.canvas, moves[i]), moves, i + 1)

\* the outcomes of the completed gestures of one kind that start in (s, c)
Gestures(s, c, kind) ==
  LET starts == {handleMouseDown(s, c, e) :
                   e \in {p \in Presses : MouseDownDefined(s, p)}}
      ofKind == {o \in starts : o.canvas.interactionMode = kind}
      moved(o) == {AfterMoves(o, moves, 1) :
                     moves \in {m \in MoveSeqs : MovesDefined(o, m, 1)}}
  IN {handleMouseUp(o.state, o.canvas) : o \in UNION {moved(o) : o \in ofKind}}

(***************************************************************************)
(* Merging.  handleMerge awaits mergeImages and dispatches MERGE_IMAGES    *)
(* when the promise resolves; a merge that was started and has not settled *)
(* is an entry of merges, holding the elements it was started with.        *)
(* Whether a canvas context is available and which image sources decode is *)
(* decided by the environment when the merge settles.                      *)
(***************************************************************************)
\* loadVideo: an element of a type the merge does not support
VideoElement(id, position) ==
  [id |-> id, type |-> "video", position |-> position,
   size |-> Size(100, 100), originalSize |-> Size(100, 100),
   zIndex |-> 0, rotation |-> 0, scale |-> 1]

MinOf(numbers) == CHOOSE m \in numbers : \A n \in numbers : m <= n
MaxOf(numbers) == CHOOSE m \in numbers : \A n \in numbers : m >= n

\* calculateBoundingBox measuring every element by its displayed size
calculateBoundingBox_usesSize(elements) ==
  LET indices == 1..Len(elements)
      left(i) == elements[i].position.x
      top(i) == elements[i].position.y
      minX == MinOf({left(i) : i \in indices})
      minY == MinOf({top(i) : i \in indices})
      maxX == MaxOf({left(i) + elements[i].size.width : i \in indices})
      maxY == MaxOf({top(i) + elements[i].size.height : i \in indices})
  IN IF Len(elements) = 0
     THEN [x |-> 0, y |-> 0, width |-> 0, height |-> 0]
     ELSE [x |-> minX, y |-> minY, width |-> maxX - minX, height |-> maxY - minY]

calculateBoundingBox(elements) ==
  LET indices == 1..Len(elements)
      left(i) == elements[i].position.x
      top(i) == elements[i].position.y
      right(i) == IF elements[i].type = "text"
                  THEN left(i) + elements[i].size.width
                  ELSE left(i) + elements[i].originalSize.width
      bottom(i) == IF elements[i].type = "text"
                   THEN top(i) + elements[i].size.height
                   ELSE top(i) + elements[i].originalSize.height
      minX == MinOf({left(i) : i \in indices})
      minY == MinOf({top(i) : i \in indices})
      maxX == MaxOf({right(i) : i \in indices})
      maxY == MaxOf({bottom(i) : i \in indices})
  IN IF Len(elements) = 0
     THEN [x |-> 0, y |-> 0, width |-> 0, height |-> 0]
     ELSE [x |-> minX, y |-> minY, width |-> maxX - minX, height |-> maxY - minY]

\* core/merger's calculateBoundingBox, declared for image elements: every
\* element is measured by its originalSize
calculateBoundingBoxOfImages(elements) ==
  LET indices == 1..Len(elements)
      minX == MinOf({elements[i].position.x : i \in indices})
      minY == MinOf({elements[i].position.y : i \in indices})
      maxX == MaxOf({elements[i].position.x + elements[i].originalSize.width :
                       i \in indices})
      maxY == MaxOf({elements[i].position.y + elements[i].originalSize.height :
                       i \in indices})
  IN IF Len(elements) = 0
     THEN [x |-> 0, y |-> 0, width |-> 0, height |-> 0]
     ELSE [x |-> minX, y |-> minY, width |-> maxX - minX, height |-> maxY - minY]

\* [...elements].sort((a, b) => a.zIndex - b.zIndex): ascending and stable
SortByZIndex(elements) ==
  LET n == Len(elements)
      rank(i) == Cardinality({j \in 1..n :
                   \/ elements[j].zIndex < elements[i].zIndex
                   \/ elements[j].zIndex = elements[i].zIndex /\ j <= i})
  IN [k \in 1..n |-> elements[CHOOSE i \in 1..n : rank(i) = k]]

\* maxDim * 1.5 compared in halves, so that the test stays in the integers
isElementVisible(element, viewport, canvasSize) ==
  LET screenPos == canvasToScreen(element.position, viewport)
      screenWidth == element.size.width * viewport.scale
      screenHeight == element.size.height * viewport.scale
      maxDim3 == 3 * (IF screenWidth >= screenHeight THEN screenWidth ELSE screenHeight)
  IN /\ 2 * screenPos.x + maxDim3 > 0
     /\ 2 * screenPos.x - maxDim3 < 2 * canvasSize.width
     /\ 2 * screenPos.y + maxDim3 > 0
     /\ 2 * screenPos.y - maxDim3 < 2 * canvasSize.height

\* the elements in the order they are painted, the last one on top
renderVisibleElements(elements, viewport, canvasSize) ==
  LET sortedElements == SortByZIndex(elements)
  IN SelectSeq(sortedElements,
               LAMBDA element : isElementVisible(element, viewport, canvasSize))

\* the paint loop placing every element at the raster's top-left corner
paintedRaster_atOrigin(elements, boundingBox) ==
  LET sortedElements == SortByZIndex(elements)
  IN [k \in 1..Len(sortedElements) |->
        LET element == sortedElements[k] IN
        [id |-> element.id, drawX |-> 0, drawY |-> 0,
         rotation |-> OrDefault(Prop(element, "rotation"), 0)]]

\* the paint loop of mergeElements: what is drawn onto the offscreen canvas,
\* in drawing order
paintedRaster(elements, boundingBox) ==
  LET sortedElements == SortByZIndex(elements)
  IN [k \in 1..Len(sortedElements) |->
        LET element == sortedElements[k] IN
        [id |-> element.id,
         drawX |-> element.position.x - boundingBox.x,
         drawY |-> element.position.y - boundingBox.y,
         rotation |-> OrDefault(Prop(element, "rotation"), 0)]]

\* a settled promise: resolved with a value or rejected with an error
Resolved(value) == [ok |-> TRUE, value |-> value]
Rejected(message) == [ok |-> FALSE, value |-> message]

mergeElements(elements, env, newId) ==
  LET supportedElements ==
        SelectSeq(elements, LAMBDA el : el.type = "image" \/ el.type = "text")
      boundingBox == calculateBoundingBox(supportedElements)
      maxZIndex == MaxOf({elements[i].zIndex : i \in 1..Len(elements)})
  IN IF Len(elements) = 0
     THEN Rejected("Cannot merge empty array of elements")
     ELSE IF Len(supportedElements) = 0
     THEN Rejected("No supported elements to merge")
     ELSE IF Len(supportedElements) = 1 /\ supportedElements[1].type = "image"
     THEN Resolved([supportedElements[1] EXCEPT !.id = newId])
     ELSE IF ~env.context
     THEN Rejected("Failed to get canvas context")
     ELSE IF \E i \in 1..Len(supportedElements) :
               /\ supportedElements[i].type = "image"
               /\ supportedElements[i].id \notin env.decodable
     THEN Rejected("Failed to load image")
     ELSE Resolved(
            [id |-> newId, type |-> "image",
             position |-> Point(boundingBox.x, boundingBox.y),
             size |-> Size(boundingBox.width, boundingBox.height),
             originalSize |-> Size(boundingBox.width, boundingBox.height),
             zIndex |-> maxZIndex + 1, rotation |-> 0, scale |-> 1,
             src |-> paintedRaster(supportedElements, boundingBox)])

mergeImages(elements, env, newId) == mergeElements(elements, env, newId)

\* core/merger's mergeImages, the one the toolbar imports: every element is
\* loaded and drawn as an image, unrotated, and the element returned has no
\* rotation and no scale property
coreMergeImages(elements, env, newId) ==
  LET boundingBox == calculateBoundingBoxOfImages(elements)
      sortedElements == SortByZIndex(elements)
      maxZIndex == MaxOf({elements[i].zIndex : i \in 1..Len(elements)})
  IN IF Len(elements) = 0
     THEN Rejected("Cannot merge empty array of images")
     ELSE IF Len(elements) = 1
     THEN Resolved([elements[1] EXCEPT !.id = newId])
     ELSE IF ~env.context
     THEN Rejected("Failed to get canvas context")
     ELSE IF \E k \in 1..Len(sortedElements) :
               sortedElements[k].id \notin env.decodable
     THEN Rejected("Failed to load image")
     ELSE Resolved(
            [id |-> newId, type |-> "image",
             position |-> Point(boundingBox.x, boundingBox.y),
             size |-> Size(boundingBox.width, boundingBox.height),
             originalSize |-> Size(boundingBox.width, boundingBox.height),
             zIndex |-> maxZIndex + 1,
             src |-> [k \in 1..Len(sortedElements) |->
                        [id |-> sortedElements[k].id,
                         drawX |-> sortedElements[k].position.x - boundingBox.x,
                         drawY |-> sortedElements[k].position.y - boundingBox.y,
                         rotation |-> 0]]])

\* getExportDimensions measuring the images as displayed
getExportDimensions_displayed(elements) ==
  IF Len(elements) = 0 THEN [width |-> 0, height |-> 0]
  ELSE LET boundingBox == calculateBoundingBox_usesSize(elements)
       IN [width |-> boundingBox.width, height |-> boundingBox.height]

getExportDimensions(elements) ==
  IF Len(elements) = 0 THEN [width |-> 0, height |-> 0]
  ELSE LET boundingBox == calculateBoundingBoxOfImages(elements)
       IN [width |-> boundingBox.width, height |-> boundingBox.height]

\* handleMerge up to its await: the selected images of the current render
selectedImages(st) ==
  SelectSeq(st.elements, LAMBDA el : el.type = "image" /\ el.id \in st.selectedIds)

canMerge(st) == Len(selectedImages(st)) >= 2

\* handleMerge after its await with a catch block that clears the selection
handleMergeSettled_clearsSelection(s, result) ==
  IF result.ok THEN MERGE_IMAGES(s, result.value) ELSE CLEAR_SELECTION(s)

\* handleMerge after its await: the dispatch, or the catch block
handleMergeSettled(s, result) ==
  IF result.ok THEN MERGE_IMAGES(s, result.value) ELSE s

\* the outcomes the environment can give a merge of these elements
MergeEnvs(elements) == [decodable : SUBSET IdsOf(elements), context : BOOLEAN]

RECURSIVE MergeIds(_)
MergeIds(pending) ==
  IF pending = << >> THEN {}
  ELSE IdsOf(Head(pending).elements) \cup MergeIds(Tail(pending))

\* crypto.randomUUID at the time a merge settles
MergedId(s, pending) == FreshId(LiveIds(s) \cup MergeIds(pending))

(***************************************************************************)
(* SpecMerge: a draft of two images is opened, elements are selected,      *)
(* moved and removed, merges are started and settle, with undo and redo.   *)
(***************************************************************************)
MergeDrafts ==
  { [viewport |-> initialCanvasState.viewport,
     elements |-> <<[ImageElement(1, P0) EXCEPT !.zIndex = 1, !.scale = 2,
                                                !.size = Size(200, 200)],
                    ImageElement(2, P1)>>] }

MergeOpenDraft ==
  /\ \E draft \in MergeDrafts : state' = LOAD_STATE(state, deserializeDraft(draft))
  /\ UNCHANGED <<canvas, merges, uploads, saved>>

StartMerge ==
  /\ Len(merges) < MaxMerges
  /\ canMerge(state.current)
  /\ merges' = Append(merges, [elements |-> selectedImages(state.current)])
  /\ UNCHANGED <<state, canvas, uploads, saved>>

SettleMerge ==
  \E i \in 1..Len(merges) : \E env \in MergeEnvs(merges[i].elements) :
    LET result == coreMergeImages(merges[i].elements, env, MergedId(state, merges)) IN
    /\ result.ok =>
         /\ CanPush
         /\ Cardinality(LiveIds(state) \cup MergeIds(merges)) < MaxIds
    /\ state' = handleMergeSettled(state, result)
    /\ merges' = [k \in 1..(Len(merges) - 1) |->
                    IF k < i THEN merges[k] ELSE merges[k + 1]]
    /\ UNCHANGED <<canvas, uploads, saved>>

NextMerge ==
  \/ MergeOpenDraft
  \/ DispatchSetSelection
  \/ DispatchUpdateElement
  \/ DispatchRemoveElements
  \/ DispatchUndo
  \/ DispatchRedo
  \/ StartMerge
  \/ SettleMerge

SpecMerge == Init /\ [][NextMerge]_vars

(***************************************************************************)
(* JavaScript numbers.  A number is (n / d) * 2^e with n and d odd and     *)
(* coprime, so that the doubles are the numbers with d = 1 and a mantissa  *)
(* n below 2^53.  Products and quotients are exact; a sum is exact when    *)
(* its operands are close in magnitude, and when one operand is below half *)
(* an ulp of the other the sum is the larger operand, as round-to-nearest  *)
(* gives it.  Sums in between do not occur in this model.                  *)
(***************************************************************************)
RECURSIVE Gcd(_, _)
Gcd(a, b) == IF b = 0 THEN a ELSE Gcd(b, a % b)

\* the number (n / d) * 2^e in canonical form
Number(n, d, e) ==
  IF n = 0 THEN [n |-> 0, d |-> 1, e |-> 0]
  ELSE LET RECURSIVE Twos(_)
           Twos(k) == IF k % 2 = 0 THEN 1 + Twos(k \div 2) ELSE 0
           sign == IF (n < 0) = (d < 0) THEN 1 ELSE -1
           absN == IF n < 0 THEN -n ELSE n
           absD == IF d < 0 THEN -d ELSE d
           oddN == absN \div 2^Twos(absN)
           oddD == absD \div 2^Twos(absD)
           g == Gcd(oddN, oddD)
       IN [n |-> sign * (oddN \div g), d |-> oddD \div g,
           e |-> e + Twos(absN) - Twos(absD)]

\* a * b
Times(a, b) ==
  LET absA == IF a.n < 0 THEN -a.n ELSE a.n
      absB == IF b.n < 0 THEN -b.n ELSE b.n
      g == Gcd(absA, b.d)
      h == Gcd(absB, a.d)
  IN IF a.n = 0 \/ b.n = 0 THEN Number(0, 1, 0)
     ELSE Number((a.n \div g) * (b.n \div h), (a.d \div h) * (b.d \div g),
                 a.e + b.e)

\* a / b, b not zero
Over(a, b) ==
  Times(a, [n |-> IF b.n < 0 THEN -b.d ELSE b.d,
            d |-> IF b.n < 0 THEN -b.n ELSE b.n, e |-> -b.e])

\* a + b
Plus(a, b) ==
  LET Log2(k) == CHOOSE i \in 0..29 : 2^i <= k /\ k \div 2 < 2^i
      absA == IF a.n < 0 THEN -a.n ELSE a.n
      absB == IF b.n < 0 THEN -b.n ELSE b.n
      \* bounds of log2 of the magnitudes
      lowA == a.e + Log2(absA) - Log2(a.d) - 1
      highA == a.e + Log2(absA) + 1 - Log2(a.d)
      lowB == b.e + Log2(absB) - Log2(b.d) - 1
      highB == b.e + Log2(absB) + 1 - Log2(b.d)
      e == IF a.e < b.e THEN a.e ELSE b.e
      g == Gcd(a.d, b.d)
      bitsA == Log2(absA) + (a.e - e) + Log2(b.d \div g) + 2
      bitsB == Log2(absB) + (b.e - e) + Log2(a.d \div g) + 2
      bitsD == Log2(a.d) + Log2(b.d \div g) + 2
  IN CASE a.n = 0 -> b
       [] b.n = 0 -> a
       [] a.n # 0 /\ b.n # 0 /\ highB <= lowA - 55 -> a
       [] a.n # 0 /\ b.n # 0 /\ highA <= lowB - 55 -> b
       [] a.n # 0 /\ b.n # 0 /\ bitsA <= 30 /\ bitsB <= 30 /\ bitsD <= 30 ->
            Number(a.n * 2^(a.e - e) * (b.d \div g)
                     + b.n * 2^(b.e - e) * (a.d \div g),
                   a.d * (b.d \div g), e)

\* a - b
Minus(a, b) == Plus(a, [b EXCEPT !.n = -b.n])

\* a <= b
AtMost(a, b) ==
  LET Log2(k) == CHOOSE i \in 0..29 : 2^i <= k /\ k \div 2 < 2^i
      absA == IF a.n < 0 THEN -a.n ELSE a.n
      absB == IF b.n < 0 THEN -b.n ELSE b.n
      lowA == a.e + Log2(absA) - Log2(a.d) - 1
      highA == a.e + Log2(absA) + 1 - Log2(a.d)
      lowB == b.e + Log2(absB) - Log2(b.d) - 1
      highB == b.e + Log2(absB) + 1 - Log2(b.d)
  IN CASE a.n <= 0 /\ b.n >= 0 -> TRUE
       [] a.n >= 0 /\ b.n <= 0 /\ (a.n # 0 \/ b.n # 0) -> FALSE
       [] a.n > 0 /\ b.n > 0 ->
            IF highA <= lowB THEN TRUE
            ELSE IF highB <= lowA THEN FALSE ELSE Minus(b, a).n >= 0
       [] a.n < 0 /\ b.n < 0 ->
            IF highA <= lowB THEN FALSE
            ELSE IF highB <= lowA THEN TRUE ELSE Minus(b, a).n >= 0

(***************************************************************************)
(* The transform module on numbers, and the handlers that set the viewport.*)
(***************************************************************************)
\* screenToCanvas that forgets the pan
screenToCanvasNumber_noOffset(screenPoint, viewport) ==
  Point(Over(screenPoint.x, viewport.scale), Over(screenPoint.y, viewport.scale))

screenToCanvasNumber(screenPoint, viewport) ==
  Point(Over(Minus(screenPoint.x, viewport.offset.x), viewport.scale),
        Over(Minus(screenPoint.y, viewport.offset.y), viewport.scale))

canvasToScreenNumber(canvasPoint, viewport) ==
  Point(Plus(Times(canvasPoint.x, viewport.scale), viewport.offset.x),
        Plus(Times(canvasPoint.y, viewport.scale), viewport.offset.y))

\* calculateZoomOffset that keeps the offset it was given
calculateZoomOffset_keepsOffset(currentViewport, newScale, zoomCenter) ==
  currentViewport.offset

calculateZoomOffset(currentViewport, newScale, zoomCenter) ==
  LET canvasPoint == screenToCanvasNumber(zoomCenter, currentViewport) IN
  Point(Minus(zoomCenter.x, Times(canvasPoint.x, newScale)),
        Minus(zoomCenter.y, Times(canvasPoint.y, newScale)))

\* Math.max(min, Math.min(max, scale))
clampScale(scale, min, max) ==
  LET capped == IF AtMost(max, scale) THEN max ELSE scale IN
  IF AtMost(capped, min) THEN min ELSE capped

handleWheel(s, e) ==
  LET MIN_SCALE == Number(1, 10, 0)
      MAX_SCALE == Number(10, 1, 0)
      ZOOM_FACTOR == Number(1, 10, 0)
      viewport == s.current.viewport
      delta == IF e.deltaY.n > 0 THEN Minus(Number(0, 1, 0), ZOOM_FACTOR)
               ELSE ZOOM_FACTOR
      newScale == clampScale(Times(viewport.scale, Plus(Number(1, 1, 0), delta)),
                             MIN_SCALE, MAX_SCALE)
      newOffset == calculateZoomOffset(viewport, newScale, e.mousePos)
  IN IF ~e.ctrlKey
     THEN SET_VIEWPORT(s, [offset |-> Point(Minus(viewport.offset.x, e.deltaX),
                                            Minus(viewport.offset.y, e.deltaY))])
     ELSE IF newScale # viewport.scale
     THEN SET_VIEWPORT(s, [scale |-> newScale, offset |-> newOffset])
     ELSE s

\* validateDraft: the fields a draft file must have; every scale and offset
\* of this model is a number
validateDraft(data) ==
  /\ {"version", "metadata", "viewport", "elements"} \subseteq DOMAIN data
  /\ {"scale", "offset"} \subseteq DOMAIN data.viewport
  /\ {"x", "y"} \subseteq DOMAIN data.viewport.offset

\* the files a session picks: drafts at several zoom levels, and two files
\* that are not drafts
DraftFiles ==
  { [version |-> "1.0", metadata |-> "metadata",
     viewport |-> [offset |-> offset, scale |-> scale], elements |-> elements] :
      offset \in {Point(Number(0, 1, 0), Number(0, 1, 0))},
      scale \in {Number(1, 1, 0), Number(8, 1, 0), Number(1, 8, 0),
                 Number(16, 1, 0), Number(1, 16, 0)},
      elements \in {<<ImageElement(1, P0)>>} }
    \cup { [version |-> "1.0", metadata |-> "metadata", elements |-> << >>],
           [version |-> "1.0", metadata |-> "metadata",
            viewport |-> [offset |-> Point(Number(0, 1, 0), Number(0, 1, 0))],
            elements |-> << >>] }

\* wheel events: a notch up or down, with or without Ctrl
WheelEvents ==
  [ctrlKey : BOOLEAN,
   deltaX : {Number(0, 1, 0)},
   deltaY : {Number(-100, 1, 0), Number(100, 1, 0)},
   mousePos : {Point(Number(100, 1, 0), Number(50, 1, 0))}]

\* handleDraftFileChange: loadDraftFromFile rejects what validateDraft rejects
OpenDraftFile ==
  /\ \E file \in DraftFiles :
       state' = IF validateDraft(file)
                THEN LOAD_STATE(state, deserializeDraft(file))
                ELSE state
  /\ UNCHANGED <<canvas, merges, uploads, saved>>

Wheel ==
  /\ \E e \in WheelEvents :
       /\ LET viewport == state.current.viewport
              far == Number(100 * MaxPan, 1, 0)
          IN IF e.ctrlKey
             THEN /\ viewport.scale.d <= 5^MaxZooms
                  /\ viewport.offset.x.d <= 5^MaxZooms
                  /\ viewport.offset.y.d <= 5^MaxZooms
             ELSE /\ AtMost(Minus(viewport.offset.y, e.deltaY), far)
                  /\ AtMost(Minus(e.deltaY, viewport.offset.y), far)
       /\ state' = handleWheel(state, e)
  /\ UNCHANGED <<canvas, merges, uploads, saved>>

NextViewport == OpenDraftFile \/ Wheel

\* initialCanvasState with its viewport in numbers
InitViewport ==
  /\ state = [initialStateWithHistory EXCEPT
                !.current.viewport =
                  [offset |-> Point(Number(0, 1, 0), Number(0, 1, 0)),
                   scale |-> Number(1, 1, 0)]]
  /\ canvas = initialCanvas
  /\ merges = << >>
  /\ uploads = << >>
  /\ saved = << >>

SpecViewport == InitViewport /\ [][NextViewport]_vars

(***************************************************************************)
(* Uploading.  handleFileChange awaits loadFile for one picked file after  *)
(* the other and dispatches ADD_ELEMENT for each file that loads; an       *)
(* upload that has not finished is an entry of uploads, holding the files, *)
(* the index of the next file and what the handler computed when it        *)
(* started.  A file is its MIME type, its size in bytes and whether the    *)
(* browser can decode its content.                                         *)
(***************************************************************************)
\* validateFile without the size check
validateFile_noSizeLimit(file) ==
  LET SUPPORTED_IMAGE_TYPES == {"image/png", "image/jpeg", "image/gif", "image/webp"}
      SUPPORTED_VIDEO_TYPES == {"video/mp4", "video/webm", "video/quicktime"}
  IN IF file.type \in SUPPORTED_IMAGE_TYPES
     THEN [valid |-> TRUE, fileType |-> "image"]
     ELSE IF file.type \in SUPPORTED_VIDEO_TYPES
     THEN [valid |-> TRUE, fileType |-> "video"]
     ELSE [valid |-> FALSE, error |-> "unsupported type"]

validateFile(file) ==
  LET MAX_FILE_SIZE == 100 * 1024 * 1024
      SUPPORTED_IMAGE_TYPES == {"image/png", "image/jpeg", "image/gif", "image/webp"}
      SUPPORTED_VIDEO_TYPES == {"video/mp4", "video/webm", "video/quicktime"}
  IN IF file.size > MAX_FILE_SIZE
     THEN [valid |-> FALSE, error |-> "size over limit"]
     ELSE IF file.type \in SUPPORTED_IMAGE_TYPES
     THEN [valid |-> TRUE, fileType |-> "image"]
     ELSE IF file.type \in SUPPORTED_VIDEO_TYPES
     THEN [valid |-> TRUE, fileType |-> "video"]
     ELSE [valid |-> FALSE, error |-> "unsupported type"]

\* loadFile, loadImage and loadVideo: the promise of an element
loadFile(file, position, zIndex, newId) ==
  LET validation == validateFile(file)
  IN IF ~validation.valid THEN Rejected(validation.error)
     ELSE IF ~file.decodes THEN Rejected("load failed")
     ELSE IF validation.fileType = "image"
     THEN Resolved([ImageElement(newId, position) EXCEPT !.zIndex = zIndex])
     ELSE Resolved([VideoElement(newId, position) EXCEPT !.zIndex = zIndex])

\* handleFileChange up to its first await
startUpload(st, files) ==
  [files |-> files, i |-> 0,
   maxZIndex |-> IF Len(st.elements) > 0
                 THEN MaxOf({st.elements[k].zIndex : k \in 1..Len(st.elements)})
                 ELSE 0,
   centerX |-> (0 - st.viewport.offset.x) \div st.viewport.scale + 400,
   centerY |-> (0 - st.viewport.offset.y) \div st.viewport.scale + 300]

\* one turn of the loop in which a failure ends the loop
uploadFile_stopsAtFailure(s, upload, newId) ==
  LET i == upload.i
      result == loadFile(upload.files[i + 1],
                         Point(upload.centerX + i * 20, upload.centerY + i * 20),
                         upload.maxZIndex + i + 1, newId)
  IN IF result.ok
     THEN [state |-> ADD_ELEMENT(s, result.value), upload |-> [upload EXCEPT !.i = i + 1]]
     ELSE [state |-> s, upload |-> [upload EXCEPT !.i = Len(upload.files)]]

\* one turn of the loop of handleFileChange, from the await to the dispatch
\* or the catch block
uploadFile(s, upload, newId) ==
  LET i == upload.i
      result == loadFile(upload.files[i + 1],
                         Point(upload.centerX + i * 20, upload.centerY + i * 20),
                         upload.maxZIndex + i + 1, newId)
  IN IF result.ok
     THEN [state |-> ADD_ELEMENT(s, result.value), upload |-> [upload EXCEPT !.i = i + 1]]
     ELSE [state |-> s, upload |-> [upload EXCEPT !.i = i + 1]]

\* the files a user picks: images and videos that load, an image that does
\* not decode, a file that is too large and a file of another type
PickedFiles ==
  { [type |-> "image/png", size |-> 1024, decodes |-> TRUE],
    [type |-> "video/mp4", size |-> 100 * 1024 * 1024, decodes |-> TRUE],
    [type |-> "image/jpeg", size |-> 1024, decodes |-> FALSE],
    [type |-> "image/png", size |-> 100 * 1024 * 1024 + 1, decodes |-> TRUE],
    [type |-> "application/pdf", size |-> 1024, decodes |-> TRUE] }

Batches == UNION {[1..n -> PickedFiles] : n \in 1..MaxFiles}

StartUpload ==
  /\ Len(uploads) < MaxUploads
  /\ startUpload(state.current, << >>).maxZIndex <= MaxFiles
  /\ \E files \in Batches : uploads' = Append(uploads, startUpload(state.current, files))
  /\ UNCHANGED <<state, canvas, merges, saved>>

UploadNextFile ==
  \E k \in 1..Len(uploads) :
    LET out == uploadFile(state, uploads[k], FreshId(LiveIds(state))) IN
    /\ uploads[k].i < Len(uploads[k].files)
    /\ out.state # state => Len(state.past) < MaxCanvasPast
    /\ state' = out.state
    /\ uploads' = [uploads EXCEPT ![k] = out.upload]
    /\ UNCHANGED <<canvas, merges, saved>>

\* the loop has ended and the file input is cleared
FinishUpload ==
  \E k \in 1..Len(uploads) :
    /\ uploads[k].i = Len(uploads[k].files)
    /\ uploads' = [j \in 1..(Len(uploads) - 1) |->
                     IF j < k THEN uploads[j] ELSE uploads[j + 1]]
    /\ UNCHANGED <<state, canvas, merges, saved>>

NextUpload ==
  \/ StartUpload
  \/ UploadNextFile
  \/ FinishUpload
  \/ DispatchUndo
  \/ DispatchRedo

SpecUpload == Init /\ [][NextUpload]_vars

(***************************************************************************)
(* SpecIds: every way an element comes to the canvas.  A draft of two      *)
(* images is opened, files are uploaded, elements are selected, copied and *)
(* pasted, duplicated by a press with Alt, merged, and all of it undone    *)
(* and redone.                                                             *)
(***************************************************************************)
\* the part of the state space SpecIds explores
\* where SpecIds lets elements be: where the draft and an upload put them,
\* and one paste away from there
InIdBounds(s) ==
  /\ Len(s.past) <= MaxPast
  /\ Len(s.current.elements) <= MaxIds
  /\ Cardinality(LiveIds(s)) <= MaxIds + 1
  /\ \A i \in 1..Len(s.current.elements) :
       LET el == s.current.elements[i] IN
       /\ el.zIndex <= MaxIds
       /\ el.position.x \in {0, 20, 50, 70, 400, 420}
       /\ el.position.y \in {0, 20, 50, 70, 300, 320}

\* copy, paste, undo and redo
IdKeyEvents ==
  {KeyEvent("KeyC", "c", TRUE), KeyEvent("KeyV", "v", TRUE),
   KeyEvent("KeyZ", "z", TRUE), KeyEvent("KeyY", "y", TRUE)}

\* one gesture, merge or upload at a time, and one element on the clipboard
IdsIdle == canvas.interactionMode = "none" /\ merges = << >> /\ uploads = << >>

IdsHandle(outcome) ==
  /\ InIdBounds(outcome.state)
  /\ Len(outcome.canvas.clipboard) <= MaxDeepElements
  /\ state' = outcome.state
  /\ canvas' = outcome.canvas
  /\ UNCHANGED <<merges, uploads, saved>>

\* a selection box drawn around all elements
IdsSelectAll == Dispatch(Act("SET_SELECTION", Ids))

IdsKeyDown == \E e \in IdKeyEvents : IdsHandle(handleKeyDown(state, canvas, e))

\* a press on the elements with the left button and Alt
IdsMouseDown ==
  \E e \in MouseEvents :
    /\ e.button = 0 /\ ~e.shiftKey /\ e.altKey /\ e.pos = Point(100, 100)
    /\ IdsIdle
    /\ MouseDownDefined(state, e)
    /\ IdsHandle(handleMouseDown(state, canvas, e))

IdsMouseUp ==
  /\ canvas.interactionMode # "none"
  /\ IdsHandle(handleMouseUp(state, canvas))

\* one file is picked, an image or a video that loads
IdsStartUpload ==
  /\ IdsIdle
  /\ StartUpload
  /\ \A k \in 1..Len(uploads') :
       /\ Len(uploads'[k].files) = 1
       /\ loadFile(uploads'[k].files[1], P0, 0, 0).ok

IdsUploadNextFile ==
  /\ UploadNextFile
  /\ InIdBounds(state')

IdsStartMerge ==
  /\ IdsIdle
  /\ StartMerge

IdsSettleMerge ==
  /\ SettleMerge
  /\ InIdBounds(state')

NextIds ==
  \/ MergeOpenDraft
  \/ IdsSelectAll
  \/ IdsKeyDown
  \/ IdsMouseDown
  \/ IdsMouseUp
  \/ IdsStartMerge
  \/ IdsSettleMerge
  \/ IdsStartUpload
  \/ IdsUploadNextFile
  \/ FinishUpload

SpecIds == Init /\ [][NextIds]_vars

(***************************************************************************)
(* SpecSaved: the store with a record of the elements that held when the   *)
(* document was last loaded or marked saved (the empty canvas at session   *)
(* start).                                                                 *)
(***************************************************************************)
SavedDispatch(action) ==
  /\ state' = canvasReducer(state, action)
  /\ saved' = IF action.type \in {"LOAD_STATE", "MARK_SAVED"}
              THEN state'.current.elements ELSE saved
  /\ UNCHANGED <<canvas, merges, uploads>>

\* the other actions that change elements
EditActions(s) ==
  {Act("ADD_ELEMENTS", payload) : payload \in CopySets(s)}
    \cup {Act("MERGE_IMAGES", payload) : payload \in NewImages(s)}
    \cup {Act("ADD_TEXT", payload) : payload \in NewTexts(s)}
    \cup {Act("ROTATE_ELEMENTS", payload) : payload \in Rotations(s)}
    \cup {Act("SCALE_ELEMENTS", payload) : payload \in Scalings(s)}

SavedAddElement ==
  /\ CanPush /\ HasRoom(1)
  /\ \E payload \in NewImages(state) : SavedDispatch(Act("ADD_ELEMENT", payload))

SavedRemoveElements ==
  /\ CanPush
  /\ \E payload \in IdSets(state) : SavedDispatch(Act("REMOVE_ELEMENTS", payload))

SavedUpdateElement ==
  \E payload \in Updates(state) : SavedDispatch(Act("UPDATE_ELEMENT", payload))

SavedEdit ==
  /\ CanPush /\ HasRoom(1)
  /\ \E action \in EditActions(state) : SavedDispatch(action)

SavedSetSelection ==
  \E payload \in IdSets(state) : SavedDispatch(Act("SET_SELECTION", payload))

SavedSetViewport ==
  \E payload \in ViewportPatches : SavedDispatch(Act("SET_VIEWPORT", payload))

SavedSetDragging ==
  \E payload \in BOOLEAN :
    /\ (~payload /\ state.current.isDragging) => CanPush
    /\ SavedDispatch(Act("SET_DRAGGING", payload))

SavedSetPanning ==
  \E payload \in BOOLEAN : SavedDispatch(Act("SET_PANNING", payload))

SavedLoadState ==
  \E draft \in Drafts : SavedDispatch(Act("LOAD_STATE", deserializeDraft(draft)))

\* handleSaveDraft: the draft is written, then MARK_SAVED is dispatched
SavedMarkSaved == SavedDispatch(Act("MARK_SAVED", {}))

SavedUndo == SavedDispatch(Act("UNDO", {}))

SavedRedo == SavedDispatch(Act("REDO", {}))

NextSaved ==
  \/ SavedAddElement
  \/ SavedRemoveElements
  \/ SavedUpdateElement
  \/ SavedEdit
  \/ SavedSetSelection
  \/ SavedSetViewport
  \/ SavedSetDragging
  \/ SavedSetPanning
  \/ SavedLoadState
  \/ SavedMarkSaved
  \/ SavedUndo
  \/ SavedRedo

SpecSaved == Init /\ [][NextSaved]_vars

(***************************************************************************)
(* Claims.                                                                 *)
(***************************************************************************)

\* C1: from one element at p0 and an empty history, a drag to p1 leaves
\* past.length = 1 and the element at p1; UNDO then puts the element back at
\* p0 with past.length = 0 and future.length = 1; REDO puts it at p1 again.
C1_DragUndoRedo ==
  (/\ Len(state.current.elements) = 1
   /\ state.past = << >>
   /\ state.future = << >>)
  =>
  \A p1 \in Positions \ {state.current.elements[1].position} :
    LET p0 == state.current.elements[1].position
        id == state.current.elements[1].id
        dragged == DragGesture(state, <<[id |-> id, updates |-> [position |-> p1]]>>)
        undone == UNDO(dragged)
        redone == REDO(undone)
    IN /\ Len(dragged.past) = 1
       /\ dragged.current.elements[1].position = p1
       /\ undone.current.elements[1].position = p0
       /\ Len(undone.past) = 0
       /\ Len(undone.future) = 1
       /\ redone.current.elements[1].position = p1

\* C2: after any durable mutation, drag gestures included, an immediately
\* following UNDO makes current.elements equal to the elements that held
\* immediately before the mutation.
C2_UndoRestoresPrior ==
  \A after \in DurableResults(state) \cup DragResults(state) :
    UNDO(after).current.elements = state.current.elements

\* C3: with a non-empty past, UNDO then REDO restores elements, past and
\* future exactly; with a non-empty future, REDO then UNDO restores them.
C3_UndoRedoInverse ==
  /\ Len(state.past) > 0 => History(REDO(UNDO(state))) = History(state)
  /\ Len(state.future) > 0 => History(UNDO(REDO(state))) = History(state)

\* C3 witness: both stacks hold several snapshots (UNDO has acted more than
\* once) and the snapshots next to the current elements differ, so that UNDO
\* or REDO changes the elements.
C3_Witness ==
  /\ Len(state.past) > 1 /\ Len(state.future) > 1
  /\ state.past[Len(state.past)] # state.future[1]

\* C4: a drag gesture of N UPDATE_ELEMENT dispatches between
\* SET_DRAGGING(true) and SET_DRAGGING(false) adds exactly one entry to past,
\* whatever N is, and no UPDATE_ELEMENT adds an entry by itself.
C4_DragCoalesced ==
  /\ \A updates \in UpdateSeqs(state) :
       LET after == DragGesture(state, updates) IN
       /\ Len(after.past) = Len(state.past) + 1
       /\ SubSeq(after.past, 1, Len(state.past)) = state.past
  /\ \A payload \in Updates(state) :
       UPDATE_ELEMENT(state, payload).past = state.past

\* C4 witness: a state with an element to drag and a non-empty past.
C4_Witness ==
  /\ Len(state.current.elements) > 0
  /\ Len(state.past) > 0
  /\ ~state.current.isDragging
  /\ \E updates \in UpdateSeqs(state) :
       /\ Len(updates) = MaxMoves
       /\ DragGesture(state, updates).current.elements # state.current.elements

\* C5: in every reachable state selectedIds is a subset of the ids of
\* current.elements.
C5_SelectionSubset ==
  state.current.selectedIds \subseteq IdsOf(state.current.elements)

\* C6: past never holds more than 50 snapshots; a push onto a full past
\* evicts the oldest snapshot, keeps the other 49 in order and appends the new
\* one.
C6_PastBounded ==
  /\ Len(state.past) <= 50
  /\ Len(state.past) = 50 =>
       \A after \in {saveToHistory(state), SET_DRAGGING(state, FALSE)}
                      \cup {ADD_ELEMENT(state, payload) : payload \in NewImages(state)} :
         (after # state) =>
           /\ Len(after.past) = 50
           /\ SubSeq(after.past, 1, 49) = Tail(state.past)
           /\ after.past[50] = state.current.elements

\* C6 witness: a full past whose oldest and newest snapshots differ, during a
\* drag whose end pushes one more snapshot.
C6_Witness ==
  /\ Len(state.past) = 50
  /\ state.past[1] # state.past[2]
  /\ state.past[50] # state.past[1]
  /\ state.current.isDragging

\* C7: every durable action leaves future empty, so REDO is a no-op right
\* after it.
C7_DurableClearsFuture ==
  \A after \in DurableResults(state)
                 \cup (IF state.current.isDragging
                       THEN {SET_DRAGGING(state, FALSE)} ELSE {}) :
    /\ after.future = << >>
    /\ REDO(after) = after

\* C7 witness: an active drag and a non-empty future, with elements to act on.
C7_Witness ==
  /\ Len(state.future) > 0
  /\ state.current.isDragging
  /\ Len(state.current.elements) > 0
  /\ state.current.selectedIds # {}

\* C8: any action other than UNDO and REDO that changes current.elements,
\* a transient UPDATE_ELEMENT after an UNDO included, leaves future empty.
C8_MutationClearsFuture ==
  \A after \in DurableResults(state)
                 \cup {UPDATE_ELEMENT(state, payload) : payload \in Updates(state)}
                 \cup {LOAD_STATE(state, deserializeDraft(draft)) : draft \in Drafts} :
    after.current.elements # state.current.elements => after.future = << >>

\* C9: UNDO with an empty past and REDO with an empty future return the
\* state unchanged in every component.
C9_EmptyStackNoOp ==
  /\ Len(state.past) = 0 => UNDO(state) = state
  /\ Len(state.future) = 0 => REDO(state) = state

\* C9 witness: both stacks empty in a saved document that holds an element.
C9_Witness ==
  /\ Len(state.past) = 0
  /\ Len(state.future) = 0
  /\ Len(state.current.elements) > 0
  /\ ~state.current.hasUnsavedChanges

\* C10: every completed gesture of each kind (drag, resize by a corner
\* handle, rotation by the rotation handle), from the press through any
\* number of pointer moves to the release, adds exactly one entry to past.
C10_GestureOneEntry ==
  canvas.interactionMode = "none" =>
    \A kind \in {"drag", "resize", "rotate"} :
      \A done \in Gestures(state, canvas, kind) :
        Len(done.state.past) = Len(state.past) + 1

\* C11: UPDATE_ELEMENT, SET_VIEWPORT, SET_PANNING, SET_SELECTION,
\* ADD_TO_SELECTION and CLEAR_SELECTION leave past and future unchanged in
\* every state; the three selection actions, SET_VIEWPORT and SET_PANNING
\* also leave current.elements unchanged.
C11_TransientFrame ==
  LET keepElements ==
        {SET_VIEWPORT(state, payload) : payload \in ViewportPatches}
          \cup {SET_PANNING(state, payload) : payload \in BOOLEAN}
          \cup {SET_SELECTION(state, payload) : payload \in SUBSET LiveIds(state)}
          \cup {ADD_TO_SELECTION(state, payload) : payload \in LiveIds(state)}
          \cup {CLEAR_SELECTION(state)}
      transient ==
        keepElements \cup {UPDATE_ELEMENT(state, payload) : payload \in Updates(state)}
  IN /\ \A after \in transient :
          after.past = state.past /\ after.future = state.future
     /\ \A after \in keepElements :
          after.current.elements = state.current.elements

\* C11 witness: the redo stack holds a snapshot while the viewport has been
\* panned and zoomed, panning is on and an element is selected.
C11_Witness ==
  /\ Len(state.future) > 0
  /\ state.current.viewport = [offset |-> P1, scale |-> 2]
  /\ state.current.isPanning
  /\ state.current.selectedIds \cap Ids # {}
  /\ \E payload \in Updates(state) :
       UPDATE_ELEMENT(state, payload).current.elements # state.current.elements

\* C12: REMOVE_ELEMENTS(ids) removes exactly the elements whose id is in ids,
\* keeps every other element unchanged and in the same relative order, and
\* removes exactly the ids in ids from selectedIds.
C12_RemoveExact ==
  \A payload \in SUBSET LiveIds(state) :
    LET after == REMOVE_ELEMENTS(state, payload).current
        kept == {i \in 1..Len(state.current.elements) :
                   state.current.elements[i].id \notin payload}
    IN /\ Len(after.elements) = Cardinality(kept)
       /\ \A k \in 1..Len(after.elements) :
            \* the k-th survivor is the k-th kept element of the prior sequence
            \E i \in kept :
              /\ Cardinality({j \in kept : j <= i}) = k
              /\ after.elements[k] = state.current.elements[i]
       /\ after.selectedIds = state.current.selectedIds \ payload

\* C12 witness: two elements at different positions, both selected, so that
\* removing one keeps the other and its selection.
C12_Witness ==
  /\ Len(state.current.elements) = 2
  /\ state.current.elements[1].position # state.current.elements[2].position
  /\ state.current.selectedIds = Ids
  /\ REMOVE_ELEMENTS(state, {state.current.elements[1].id}).current.elements
       = <<state.current.elements[2]>>

\* C13: REMOVE_ELEMENTS with an empty id list is a no-op: elements,
\* selectedIds, past and future are as before.
C13_RemoveNothingNoOp ==
  LET after == REMOVE_ELEMENTS(state, {}) IN
  /\ after.current.elements = state.current.elements
  /\ after.current.selectedIds = state.current.selectedIds
  /\ after.past = state.past
  /\ after.future = state.future

\* C14: MERGE_IMAGES(result) removes every element whose id is in selectedIds
\* at dispatch time, keeps the other elements unchanged and in order, appends
\* result, sets selectedIds to {result.id} and pushes one snapshot of the
\* pre-merge elements onto past.
C14_MergeReplacesSelection ==
  \A payload \in NewImages(state) :
    LET after == MERGE_IMAGES(state, payload)
        others == SelectSeq(state.current.elements,
                            LAMBDA el : el.id \notin state.current.selectedIds)
    IN /\ after.current.elements = Append(others, payload)
       /\ after.current.selectedIds = {payload.id}
       /\ Len(state.past) < MAX_HISTORY_LENGTH =>
            after.past = Append(state.past, state.current.elements)

\* C14 witness: two elements of which exactly one is selected, with a snapshot
\* already on past.
C14_Witness ==
  /\ Len(state.current.elements) = 2
  /\ Cardinality(state.current.selectedIds \cap Ids) = 1
  /\ Len(state.past) > 0

\* C15: a merge that fails dispatches nothing.  Merging no elements, merging
\* only elements of unsupported types, and merging several images of which one
\* cannot be decoded are all rejected; and whenever a merge is rejected, of the
\* elements it was started with or of any selection of the current elements,
\* the state after handleMerge has the elements, selectedIds, past and future
\* it had before.
MergeInputs ==
  {merges[i].elements : i \in 1..Len(merges)}
    \cup {SelectSeq(state.current.elements, LAMBDA el : el.id \in ids) :
            ids \in SUBSET Ids}
    \cup {<<VideoElement(FreshId(LiveIds(state)), P0)>>}

C15_FailedMergeNoChange ==
  \A elements \in MergeInputs : \A env \in MergeEnvs(elements) :
    LET result == mergeImages(elements, env, MergedId(state, merges))
        after == handleMergeSettled(state, result)
        supported == SelectSeq(elements, LAMBDA el : el.type \in {"image", "text"})
        undecodable == \E i \in 1..Len(supported) :
                         /\ supported[i].type = "image"
                         /\ supported[i].id \notin env.decodable
    IN /\ Len(elements) = 0 => ~result.ok
       /\ Len(supported) = 0 => ~result.ok
       /\ (Len(supported) >= 2 /\ undecodable) => ~result.ok
       /\ ~result.ok =>
            /\ after.current.elements = state.current.elements
            /\ after.current.selectedIds = state.current.selectedIds
            /\ after.past = state.past
            /\ after.future = state.future

\* C15 witness: a merge of two images is in flight, the selection has changed since it
\* was started, and there is something to undo
C15_Witness ==
  /\ Len(merges) > 0
  /\ Len(merges[1].elements) >= 2
  /\ state.current.selectedIds # IdsOf(merges[1].elements)
  /\ state.current.selectedIds # {}
  /\ Len(state.past) > 0

\* C16: from any prior state LOAD_STATE(payload) yields the payload's elements
\* and viewport, the payload's selectedIds or the empty set when it has none,
\* hasUnsavedChanges false and empty past and future, so that UNDO and REDO
\* are no-ops right after a load.
C16_LoadReplaces ==
  LET restored == {deserializeDraft(draft) : draft \in Drafts}
      partial == {[elements |-> r.elements,
                   viewport |-> [offset |-> P1, scale |-> 2]] : r \in restored}
      selecting == {Spread(r, [selectedIds |-> IdsOf(r.elements)]) : r \in restored}
  IN \A payload \in restored \cup partial \cup selecting :
       LET after == LOAD_STATE(state, payload) IN
       /\ after.current.elements = payload.elements
       /\ after.current.viewport = payload.viewport
       /\ after.current.selectedIds =
            (IF "selectedIds" \in DOMAIN payload THEN payload.selectedIds ELSE {})
       /\ ~after.current.hasUnsavedChanges
       /\ after.past = << >>
       /\ after.future = << >>
       /\ UNDO(after) = after
       /\ REDO(after) = after

\* C16 witness: unsaved changes, a selection, a moved viewport and a snapshot
\* on the redo stack, all of which a load replaces.
C16_Witness ==
  /\ state.current.hasUnsavedChanges
  /\ state.current.selectedIds # {}
  /\ state.current.viewport # initialCanvasState.viewport
  /\ Len(state.future) > 0
  /\ \A draft \in Drafts : draft.elements # state.current.elements

\* C17: MARK_SAVED sets hasUnsavedChanges to false and leaves elements,
\* selectedIds, viewport, isDragging, isPanning, past and future unchanged.
C17_MarkSavedFrame ==
  LET after == MARK_SAVED(state) IN
  /\ ~after.current.hasUnsavedChanges
  /\ [after EXCEPT !.current.hasUnsavedChanges = state.current.hasUnsavedChanges] = state

\* C17 witness: the document was saved while past held a snapshot, an element
\* was selected and a drag and a pan were in progress.
C17_Witness ==
  /\ ~state.current.hasUnsavedChanges
  /\ Len(state.past) > 0
  /\ state.current.selectedIds \cap Ids # {}
  /\ state.current.isDragging /\ state.current.isPanning
  /\ state.current.viewport # initialCanvasState.viewport

\* C18: for any state and any element id, SET_SELECTION([id]) yields
\* selectedIds = {id} exactly, whatever the prior selection was; no other
\* element is selected afterwards.
C18_SingleSelection ==
  \A id \in Ids :
    LET after == SET_SELECTION(state, {id}).current IN
    /\ after.selectedIds = {id}
    /\ \A i \in 1..Len(after.elements) :
         after.elements[i].id \in after.selectedIds <=> after.elements[i].id = id

\* C18 witness: two elements are selected, so that selecting one of them
\* deselects the other.
C18_Witness ==
  /\ Cardinality(state.current.selectedIds \cap Ids) = 2

\* C19: starting from an empty selection, any sequence of ADD_TO_SELECTION
\* dispatches yields selectedIds equal to the set of distinct ids dispatched;
\* no selected id is ever dropped, and dispatching an already selected id
\* changes nothing.
C19_SelectionAccumulates ==
  /\ state.current.selectedIds = {} =>
       \A ids \in UNION {[1..n -> LiveIds(state)] : n \in 0..MaxAdds} :
         LET actions == [i \in 1..Len(ids) |-> Act("ADD_TO_SELECTION", ids[i])]
         IN DispatchAll(state, actions).current.selectedIds
              = {ids[i] : i \in 1..Len(ids)}
  /\ \A id \in LiveIds(state) :
       LET after == ADD_TO_SELECTION(state, id) IN
       /\ state.current.selectedIds \subseteq after.current.selectedIds
       /\ id \in state.current.selectedIds => after = state

\* C19 witness: nothing is selected and there are two elements to add, so
\* that the longest sequences repeat an id.
C19_Witness ==
  /\ state.current.selectedIds = {}
  /\ Len(state.current.elements) = 2
  /\ MaxAdds > Cardinality(LiveIds(state))

\* C20: from any state CLEAR_SELECTION yields an empty selectedIds and leaves
\* current.elements untouched: same elements, same order, same fields.
C20_ClearSelection ==
  LET after == CLEAR_SELECTION(state).current IN
  /\ after.selectedIds = {}
  /\ after.elements = state.current.elements

\* C20 witness: one of two elements is selected.
C20_Witness ==
  /\ Len(state.current.elements) = 2
  /\ Cardinality(state.current.selectedIds \cap Ids) = 1
  /\ state.current.elements[1].position # state.current.elements[2].position

\* C21: UPDATE_ELEMENT(id, {position: initial + (dx, dy)}) sets the position
\* of the element with that id to exactly initial + (dx, dy), changes no other
\* field of that element and no other element; updating each element in turn
\* with its own initial position plus one common delta leaves each element at
\* its initial position plus that delta.
C21_DragDelta ==
  LET elements == state.current.elements
      moved(p, delta) == Point(p.x + delta.x, p.y + delta.y)
      payload(i, delta) ==
        [id |-> elements[i].id,
         updates |-> [position |-> moved(elements[i].position, delta)]]
  IN \A delta \in {Point(0, 0), Point(7, -3), Point(-50, 50)} :
       /\ \A i \in 1..Len(elements) :
            LET after == UPDATE_ELEMENT(state, payload(i, delta)).current.elements
            IN /\ Len(after) = Len(elements)
               /\ after[i] = [elements[i] EXCEPT
                                !.position = moved(elements[i].position, delta)]
               /\ \A j \in 1..Len(elements) : j # i => after[j] = elements[j]
       /\ LET after ==
                ApplyUpdates(state, [i \in 1..Len(elements) |-> payload(i, delta)],
                             1).current.elements
          IN /\ Len(after) = Len(elements)
             /\ \A i \in 1..Len(elements) :
                  after[i] = [elements[i] EXCEPT
                                !.position = moved(elements[i].position, delta)]

\* C21 witness: an image and a text element at different positions, so that a
\* patch applied to the wrong element or field would show
C21_Witness ==
  /\ Len(state.current.elements) = 2
  /\ state.current.elements[1].position # state.current.elements[2].position
  /\ state.current.elements[1].type # state.current.elements[2].type

\* C22: in every reachable state viewport.scale lies in [0.1, 10], whatever
\* draft files accepted by validateDraft have been loaded and whatever wheel
\* events have occurred.
C22_ScaleInRange ==
  /\ AtMost(Number(1, 10, 0), state.current.viewport.scale)
  /\ AtMost(state.current.viewport.scale, Number(10, 1, 0))

\* C23: for all points p and all viewports v with scale in [0.1, 10],
\* screenToCanvas(canvasToScreen(p, v), v) and canvasToScreen(screenToCanvas(p,
\* v), v) equal p up to the tolerance 1e-5.
C23_RoundTrip ==
  LET N(k) == Number(k, 1, 0)
      Abs1(a) == IF a.n < 0 THEN [a EXCEPT !.n = -a.n] ELSE a
      Close(a, b) == /\ AtMost(Abs1(Minus(a.x, b.x)), Number(1, 100000, 0))
                     /\ AtMost(Abs1(Minus(a.y, b.y)), Number(1, 100000, 0))
      viewports == {state.current.viewport,
                    [offset |-> Point(Number(1, 1, 60), N(0)), scale |-> N(1)]}
      points == {Point(N(0), N(0)), Point(N(1), N(1)), Point(N(100), N(-50))}
  IN \A v \in viewports : \A p \in points :
       (AtMost(Number(1, 10, 0), v.scale) /\ AtMost(v.scale, N(10))) =>
         /\ Close(screenToCanvasNumber(canvasToScreenNumber(p, v), v), p)
         /\ Close(canvasToScreenNumber(screenToCanvasNumber(p, v), v), p)

\* C23 as amended: the same for points and viewport offsets of magnitude at
\* most 10000, the domain of the property tests.
C23_RoundTripBounded ==
  LET N(k) == Number(k, 1, 0)
      Abs1(a) == IF a.n < 0 THEN [a EXCEPT !.n = -a.n] ELSE a
      Close(a, b) == /\ AtMost(Abs1(Minus(a.x, b.x)), Number(1, 100000, 0))
                     /\ AtMost(Abs1(Minus(a.y, b.y)), Number(1, 100000, 0))
      Bounded(p) == AtMost(Abs1(p.x), N(10000)) /\ AtMost(Abs1(p.y), N(10000))
      viewports == {state.current.viewport,
                    [offset |-> Point(N(10000), N(-10000)), scale |-> Number(1, 10, 0)],
                    [offset |-> Point(Number(1, 1, 60), N(0)), scale |-> N(1)]}
      points == {Point(N(0), N(0)), Point(N(1), N(1)), Point(N(100), N(-50)),
                 Point(N(-10000), N(10000)), Point(Number(1, 1, 60), N(0))}
  IN \A v \in viewports : \A p \in points :
       (/\ AtMost(Number(1, 10, 0), v.scale) /\ AtMost(v.scale, N(10))
        /\ Bounded(v.offset) /\ Bounded(p)) =>
         /\ Close(screenToCanvasNumber(canvasToScreenNumber(p, v), v), p)
         /\ Close(canvasToScreenNumber(screenToCanvasNumber(p, v), v), p)

\* C23 witness: a viewport zoomed to a scale that is not a power of two and
\* moved off the origin in both coordinates
C23_Witness ==
  /\ state.current.viewport.scale.d > 1
  /\ state.current.viewport.offset.x.n # 0
  /\ state.current.viewport.offset.y.n # 0

C25_TopmostHit ==
  LET elements == state.current.elements
      viewports == {state.current.viewport, [offset |-> P1, scale |-> 2]}
      screenPoints == ScreenPoints \cup {Point(250, 250), Point(350, 350),
                                          Point(0, 0), Point(200, 100)}
  IN \A v \in viewports : \A sp \in screenPoints :
       LET x == (sp.x - v.offset.x) \div v.scale
           y == (sp.y - v.offset.y) \div v.scale
           containing ==
             {i \in 1..Len(elements) :
                /\ elements[i].position.x <= x
                /\ x <= elements[i].position.x + elements[i].size.width
                /\ elements[i].position.y <= y
                /\ y <= elements[i].position.y + elements[i].size.height}
           hit == getElementAtPoint(sp, elements, v)
       IN ((sp.x - v.offset.x) % v.scale = 0 /\ (sp.y - v.offset.y) % v.scale = 0) =>
            /\ (hit = << >>) <=> (containing = {})
            /\ hit # << >> =>
                 \E i \in containing :
                   /\ hit[1] = elements[i]
                   /\ \A j \in containing : elements[j].zIndex <= elements[i].zIndex

\* C25 witness: the pointer was pressed on a point of both elements, the
\* later element of the list is on top, and the press selected it
C25_Witness ==
  /\ Len(state.current.elements) = 2
  /\ canvas.interactionMode = "drag"
  /\ \A i \in 1..2 :
       isPointInElement(screenToCanvas(canvas.lastMousePos, state.current.viewport),
                        state.current.elements[i])
  /\ state.current.elements[2].zIndex > state.current.elements[1].zIndex
  /\ state.current.selectedIds = {state.current.elements[2].id}

\* C26: getElementsInRect returns exactly the elements whose box (position,
\* size) is not fully outside the canvas-space rectangle on any side, in
\* their input order, and returns the same result for a screen rectangle and
\* for the same rectangle given with reversed drag direction (negative width
\* or height).
C26_RectSelection ==
  LET elements == state.current.elements
      viewports == {state.current.viewport, [offset |-> P1, scale |-> 2]}
      corners == ScreenPoints \cup {Point(250, 250), Point(350, 350), Point(0, 0)}
  IN \A v \in viewports : \A a \in corners : \A b \in corners :
       LET exact(p) == /\ (p.x - v.offset.x) % v.scale = 0
                       /\ (p.y - v.offset.y) % v.scale = 0
           image(p) == Point((p.x - v.offset.x) \div v.scale,
                             (p.y - v.offset.y) \div v.scale)
           left == IF image(a).x <= image(b).x THEN image(a).x ELSE image(b).x
           right == IF image(a).x <= image(b).x THEN image(b).x ELSE image(a).x
           top == IF image(a).y <= image(b).y THEN image(a).y ELSE image(b).y
           bottom == IF image(a).y <= image(b).y THEN image(b).y ELSE image(a).y
           overlaps(el) ==
             /\ el.position.x <= right
             /\ el.position.x + el.size.width >= left
             /\ el.position.y <= bottom
             /\ el.position.y + el.size.height >= top
           rect(p, q) == [x |-> p.x, y |-> p.y,
                          width |-> q.x - p.x, height |-> q.y - p.y]
           mixed == [x |-> a.x, y |-> b.y, width |-> b.x - a.x, height |-> a.y - b.y]
       IN (exact(a) /\ exact(b)) =>
            /\ getElementsInRect(rect(a, b), elements, v) = SelectSeq(elements, overlaps)
            /\ getElementsInRect(rect(b, a), elements, v)
                 = getElementsInRect(rect(a, b), elements, v)
            /\ getElementsInRect(mixed, elements, v)
                 = getElementsInRect(rect(a, b), elements, v)

\* C26 witness: a selection box dragged up and to the left has selected one
\* of two elements
C26_Witness ==
  /\ Len(state.current.elements) = 2
  /\ canvas.interactionMode = "boxSelect"
  /\ canvas.boxSelectStart # << >>
  /\ canvas.lastMousePos.x < canvas.boxSelectStart[1].x
  /\ canvas.lastMousePos.y < canvas.boxSelectStart[1].y
  /\ Cardinality(state.current.selectedIds) = 1

\* the lists a bounding box is asked for: the elements of every merge in
\* flight, every selection of the current elements, a lone video, each of
\* these followed by a text element narrower than its original size, and
\* the empty list
BoxInputs ==
  MergeInputs
    \cup {Append(elements, [TextElement(MergedId(state, merges), P1, 0) EXCEPT
                              !.size = Size(60, 20)]) : elements \in MergeInputs}
    \cup {<< >>}

\* C27: calculateBoundingBox of a non-empty list has the least left and top
\* edge of the elements as its origin and reaches exactly to their greatest
\* right and bottom edge, an element's extent being its size when it is a
\* text and its originalSize otherwise; so every element's box lies inside
\* it, a single element yields its own box, and the empty list yields the
\* zero rectangle at the origin.  core/merger's calculateBoundingBox agrees
\* on lists of images.
C27_BoundingBoxExact ==
  \A elements \in BoxInputs :
    LET box == calculateBoundingBox(elements)
        indices == 1..Len(elements)
        w(i) == IF elements[i].type = "text" THEN elements[i].size.width
                ELSE elements[i].originalSize.width
        h(i) == IF elements[i].type = "text" THEN elements[i].size.height
                ELSE elements[i].originalSize.height
        x(i) == elements[i].position.x
        y(i) == elements[i].position.y
    IN /\ elements = << >> => box = [x |-> 0, y |-> 0, width |-> 0, height |-> 0]
       /\ elements # << >> =>
            /\ \A i \in indices :
                 /\ box.x <= x(i) /\ x(i) + w(i) <= box.x + box.width
                 /\ box.y <= y(i) /\ y(i) + h(i) <= box.y + box.height
            /\ \E i \in indices : box.x = x(i)
            /\ \E i \in indices : box.y = y(i)
            /\ \E i \in indices : box.x + box.width = x(i) + w(i)
            /\ \E i \in indices : box.y + box.height = y(i) + h(i)
       /\ Len(elements) = 1 =>
            box = [x |-> x(1), y |-> y(1), width |-> w(1), height |-> h(1)]
       /\ (\A i \in indices : elements[i].type = "image") =>
            calculateBoundingBoxOfImages(elements) = box

\* a merge of two images has settled: its raster spans both of them, one of
\* which is shown larger than its original size
C27_Witness ==
  \E i \in 1..Len(state.current.elements) :
    LET el == state.current.elements[i] IN
    /\ "src" \in DOMAIN el
    /\ el.originalSize.width > 100
    /\ \E j \in 1..Len(state.past[Len(state.past)]) :
         LET before == state.past[Len(state.past)][j] IN
         before.size # before.originalSize

\* C28: in the raster of a merge every element is drawn at its position
\* relative to the bounding-box origin: no draw position is negative, and for
\* any two elements the draw positions differ by exactly the difference of
\* the elements' positions.
C28_RelativePositions ==
  \A elements \in BoxInputs :
    LET supported == SelectSeq(elements, LAMBDA el : el.type \in {"image", "text"})
        raster == paintedRaster(supported, calculateBoundingBox(supported))
        draw(i) == raster[CHOOSE k \in 1..Len(raster) : raster[k].id = supported[i].id]
    IN /\ Len(raster) = Len(supported)
       /\ \A i \in 1..Len(supported) :
            /\ \E k \in 1..Len(raster) : raster[k].id = supported[i].id
            /\ draw(i).drawX >= 0
            /\ draw(i).drawY >= 0
            /\ \A j \in 1..Len(supported) :
                 /\ draw(j).drawX - draw(i).drawX =
                      supported[j].position.x - supported[i].position.x
                 /\ draw(j).drawY - draw(i).drawY =
                      supported[j].position.y - supported[i].position.y

\* a merge has settled whose bounding box is not at the canvas origin and
\* whose two elements were drawn at different places
C28_Witness ==
  \E i \in 1..Len(state.current.elements) :
    LET el == state.current.elements[i] IN
    /\ "src" \in DOMAIN el
    /\ el.position # Point(0, 0)
    /\ Len(el.src) = 2
    /\ el.src[1].drawX # el.src[2].drawX

\* what the claim says of the element a merge of these elements returned
MergedAsStated(elements, merged, newId) ==
  LET supported == SelectSeq(elements, LAMBDA el : el.type \in {"image", "text"})
      box == calculateBoundingBox(supported)
      zOf(id) == CHOOSE z \in {elements[i].zIndex : i \in 1..Len(elements)} :
                   \E i \in 1..Len(elements) :
                     elements[i].id = id /\ elements[i].zIndex = z
  IN /\ Len(merged.src) = Len(supported)
     /\ \A k \in 1..(Len(merged.src) - 1) :
          zOf(merged.src[k].id) <= zOf(merged.src[k + 1].id)
     /\ merged.id = newId
     /\ merged.id \notin IdsOf(elements) \cup LiveIds(state)
     /\ merged.type = "image"
     /\ merged.position = Point(box.x, box.y)
     /\ merged.size = Size(box.width, box.height)
     /\ merged.originalSize = Size(box.width, box.height)
     /\ "rotation" \in DOMAIN merged /\ merged.rotation = 0
     /\ "scale" \in DOMAIN merged /\ merged.scale = 1
     /\ merged.zIndex = 1 + MaxOf({elements[i].zIndex : i \in 1..Len(elements)})

\* C29: a successful merge of two or more supported elements paints them in
\* ascending zIndex order and returns an image element with a fresh id, its
\* position at the bounding-box origin, size and originalSize equal to the
\* bounding-box dimensions, rotation 0, scale 1 and zIndex one above the
\* greatest zIndex of the input; of mergeElements, and of the mergeImages the
\* toolbar calls with the selected images.
C29_MergeResult ==
  \A elements \in BoxInputs : \A env \in MergeEnvs(elements) :
    LET newId == FreshId(LiveIds(state) \cup MergeIds(merges) \cup IdsOf(elements))
        supported == SelectSeq(elements, LAMBDA el : el.type \in {"image", "text"})
        images == SelectSeq(elements, LAMBDA el : el.type = "image")
        ofElements == mergeElements(elements, env, newId)
        ofImages == coreMergeImages(elements, env, newId)
    IN Len(supported) >= 2 =>
         /\ ofElements.ok => MergedAsStated(elements, ofElements.value, newId)
         /\ (images = elements /\ ofImages.ok) =>
              MergedAsStated(elements, ofImages.value, newId)

\* the same of mergeElements alone, which sets rotation and scale
MergeElementsAsStated ==
  \A elements \in BoxInputs : \A env \in MergeEnvs(elements) :
    LET newId == FreshId(LiveIds(state) \cup MergeIds(merges) \cup IdsOf(elements))
        supported == SelectSeq(elements, LAMBDA el : el.type \in {"image", "text"})
        ofElements == mergeElements(elements, env, newId)
    IN (Len(supported) >= 2 /\ ofElements.ok) =>
         MergedAsStated(elements, ofElements.value, newId)

\* the lists of images an export is asked for: the selected images, all
\* images, the images of any selection, and the images of a merge in flight
ExportInputs ==
  {SelectSeq(elements, LAMBDA el : el.type = "image") : elements \in MergeInputs}

\* C30: getExportDimensions of a non-empty list of images is the width and
\* height of calculateBoundingBox of the list, of a single image it is that
\* image's originalSize, and of the empty list it is 0 x 0.
C30_ExportDimensions ==
  \A elements \in ExportInputs :
    LET dimensions == getExportDimensions(elements)
        boundingBox == calculateBoundingBox(elements)
    IN /\ Len(elements) > 0 =>
            /\ dimensions.width = boundingBox.width
            /\ dimensions.height = boundingBox.height
            /\ dimensions.width = calculateBoundingBoxOfImages(elements).width
            /\ dimensions.height = calculateBoundingBoxOfImages(elements).height
       /\ Len(elements) = 1 =>
            /\ dimensions.width = elements[1].originalSize.width
            /\ dimensions.height = elements[1].originalSize.height
       /\ Len(elements) = 0 => dimensions = [width |-> 0, height |-> 0]

\* two images are selected for export, one of them shown larger than its
\* original size, and they do not start at the canvas origin
C30_Witness ==
  LET images == selectedImages(state.current) IN
  /\ Len(images) = 2
  /\ \E i \in 1..2 : images[i].size # images[i].originalSize
  /\ \A i \in 1..2 : images[i].position # Point(0, 0)
  /\ getExportDimensions(images).width > 100

\* C31: deserializeDraft(serializeDraft(s)) has the elements of s in the same
\* order, each with the same id, type, position, size, originalSize and
\* zIndex, and the same viewport offset and scale; and validateDraft accepts
\* serializeDraft(s).
C31_DraftRoundTrip ==
  \A now \in {"2024-01-01T00:00:00.000Z"} :
    LET s == state.current
        draft == serializeDraft(s, now)
        restored == deserializeDraft(draft)
    IN /\ Len(restored.elements) = Len(s.elements)
       /\ \A i \in 1..Len(s.elements) :
            /\ restored.elements[i].id = s.elements[i].id
            /\ restored.elements[i].type = s.elements[i].type
            /\ restored.elements[i].position = s.elements[i].position
            /\ restored.elements[i].size = s.elements[i].size
            /\ restored.elements[i].originalSize = s.elements[i].originalSize
            /\ restored.elements[i].zIndex = s.elements[i].zIndex
       /\ restored.viewport.offset = s.viewport.offset
       /\ restored.viewport.scale = s.viewport.scale
       /\ validateDraft(draft)
       /\ draft.metadata.elementCount = Len(restored.elements)

\* a canvas that was just saved: two elements of different types of which one
\* is selected, under a panned and zoomed viewport
C31_Witness ==
  /\ ~state.current.hasUnsavedChanges
  /\ Len(state.current.elements) = 2
  /\ state.current.elements[1].type # state.current.elements[2].type
  /\ Cardinality(state.current.selectedIds) = 1
  /\ state.current.viewport.offset # Point(0, 0)
  /\ state.current.viewport.scale # 1

\* the files validateFile is asked about: every picked file, and a file of
\* each MIME type at sizes around the limit
ValidatedFiles ==
  PickedFiles
    \cup UNION {{uploads[k].files[i] : i \in 1..Len(uploads[k].files)} :
                 k \in 1..Len(uploads)}
    \cup [type : {"image/png", "image/jpeg", "image/gif", "image/webp",
                  "video/mp4", "video/webm", "video/quicktime",
                  "image/svg+xml", "application/pdf", ""},
          size : {0, 100 * 1024 * 1024, 100 * 1024 * 1024 + 1, 200 * 1024 * 1024},
          decodes : BOOLEAN]

\* C32: validateFile rejects, with an error, every file larger than 100 MB
\* whatever its MIME type and every file whose MIME type is in neither
\* supported list, and accepts every other file as an image or a video
\* according to the list that holds its MIME type; and the upload of a
\* rejected file leaves the canvas state as it is.
C32_ValidateFile ==
  /\ \A file \in ValidatedFiles :
       LET result == validateFile(file)
           isImage == file.type \in {"image/png", "image/jpeg", "image/gif", "image/webp"}
           isVideo == file.type \in {"video/mp4", "video/webm", "video/quicktime"}
       IN /\ file.size > 104857600 =>
               ~result.valid /\ "error" \in DOMAIN result
          /\ (~isImage /\ ~isVideo) =>
               ~result.valid /\ "error" \in DOMAIN result
          /\ (file.size <= 104857600 /\ isImage) =>
               result.valid /\ result.fileType = "image"
          /\ (file.size <= 104857600 /\ isVideo) =>
               result.valid /\ result.fileType = "video"
  /\ \A k \in 1..Len(uploads) :
       LET upload == uploads[k] IN
       (upload.i < Len(upload.files) /\ ~validateFile(upload.files[upload.i + 1]).valid) =>
          /\ ~loadFile(upload.files[upload.i + 1], P0, 0, FreshId(LiveIds(state))).ok
          /\ uploadFile(state, upload, FreshId(LiveIds(state))).state = state

\* an upload has passed a file that is too large and then added a video of
\* exactly 100 MB
C32_Witness ==
  \E k \in 1..Len(uploads) :
    /\ Len(uploads[k].files) = 2
    /\ uploads[k].i = 2
    /\ uploads[k].files[1].size > 104857600
    /\ uploads[k].files[2].size = 104857600
    /\ Len(state.current.elements) = 1
    /\ state.current.elements[1].type = "video"

\* the remaining turns of an upload's loop, run without interruption
RECURSIVE RunUpload(_, _)
RunUpload(s, upload) ==
  IF upload.i >= Len(upload.files) THEN s
  ELSE LET out == uploadFile(s, upload, FreshId(LiveIds(s)))
       IN RunUpload(out.state, out.upload)

\* C33: in an upload of several files, every file that validates and decodes
\* is added by one ADD_ELEMENT, wherever the failing files stand in the
\* batch, and a failing file dispatches nothing: the elements present before
\* stay as they are, and the elements after the batch are those followed by
\* one element per loadable file, in the order of the files.
C33_BatchIsolation ==
  \A k \in 1..Len(uploads) :
    LET upload == uploads[k]
        loads(i) == validateFile(upload.files[i]).valid /\ upload.files[i].decodes
        rest == {i \in (upload.i + 1)..Len(upload.files) : loads(i)}
        before == state.current.elements
        after == RunUpload(state, upload)
        nth(n) == CHOOSE i \in rest : Cardinality({j \in rest : j <= i}) = n
    IN /\ Len(after.current.elements) = Len(before) + Cardinality(rest)
       /\ SubSeq(after.current.elements, 1, Len(before)) = before
       /\ Len(after.past) = Len(state.past) + Cardinality(rest)
       /\ \A n \in 1..Cardinality(rest) :
            LET el == after.current.elements[Len(before) + n] IN
            /\ el.type = validateFile(upload.files[nth(n)]).fileType
            /\ el.zIndex = upload.maxZIndex + nth(n)
            /\ el.position = Point(upload.centerX + (nth(n) - 1) * 20,
                                   upload.centerY + (nth(n) - 1) * 20)
       /\ (upload.i < Len(upload.files) /\ ~loads(upload.i + 1)) =>
            uploadFile(state, upload, FreshId(LiveIds(state))).state = state

\* an upload whose first file did not decode has added its second file
C33_Witness ==
  \E k \in 1..Len(uploads) :
    /\ Len(uploads[k].files) = 2
    /\ uploads[k].i = 2
    /\ validateFile(uploads[k].files[1]).valid
    /\ ~uploads[k].files[1].decodes
    /\ Len(state.current.elements) > 0
    /\ state.current.elements[Len(state.current.elements)].zIndex
         = uploads[k].maxZIndex + 2

\* C34: in every reachable state the ids of the elements of current.elements
\* are pairwise distinct, the id generator never returning an id twice; upload,
\* paste, Alt-drag duplication, merge, undo and redo all preserve this.
C34_DistinctIds ==
  /\ Cardinality(IdsOf(state.current.elements)) = Len(state.current.elements)
  /\ \A k \in 1..Len(state.past) :
       Cardinality(IdsOf(state.past[k])) = Len(state.past[k])
  /\ \A k \in 1..Len(state.future) :
       Cardinality(IdsOf(state.future[k])) = Len(state.future[k])

\* a pasted copy (the clipboard holds the pasted elements after Ctrl+V) sits on
\* the canvas next to at least two other elements, after an undoable change
C34_Witness ==
  /\ Len(state.current.elements) >= 3
  /\ Len(canvas.clipboard) > 0
  /\ \E i, j \in 1..Len(state.current.elements) :
       LET el == state.current.elements[i]
           original == state.current.elements[j]
       IN /\ el.id \in IdsOf(canvas.clipboard)
          /\ el.id # original.id
          /\ el.position = Point(original.position.x + 20, original.position.y + 20)
  /\ Len(state.past) > 0

\* C35: for every merge started from the toolbar or the context menu, the set
\* of elements removed by the eventual MERGE_IMAGES dispatch equals the set of
\* elements that were rasterized into the merged image, whatever the selection
\* holds when the merge settles.
C35_MergeRemovesInputs ==
  [][\A i \in 1..Len(merges) :
       (/\ merges' = [k \in 1..(Len(merges) - 1) |->
                        IF k < i THEN merges[k] ELSE merges[k + 1]]
        /\ state' # state)
       => IdsOf(state.current.elements) \ IdsOf(state'.current.elements)
            = IdsOf(merges[i].elements)]_vars

\* C36: for any element list and point, also when several elements share a
\* zIndex, the element returned by getElementAtPoint is the element that
\* renderVisibleElements paints last among the elements containing the point.
C36_HitIsPaintedLast ==
  LET elements == state.current.elements
      viewport == state.current.viewport
      painted == renderVisibleElements(elements, viewport, Size(800, 600))
  IN \A sp \in ScreenPoints :
       LET canvasPoint == screenToCanvas(sp, viewport)
           containing == {k \in 1..Len(painted) :
                            isPointInElement(canvasPoint, painted[k])}
           hit == getElementAtPoint(sp, elements, viewport)
       IN IF containing = {} THEN hit = << >>
          ELSE hit = <<painted[CHOOSE k \in containing :
                                 \A j \in containing : j <= k]>>

\* C37: in every reachable state past.length + future.length <= 50, so REDO,
\* which appends to past without truncating, never makes past longer than 50
\* entries.
C37_HistoryBound ==
  /\ Len(state.past) + Len(state.future) <= 50
  /\ Len(state.past) <= 50
  /\ Len(state.future) > 0 => Len(REDO(state).past) <= 50

\* the stack was filled to its limit, some steps were undone, and a redo has
\* appended to past again
C37_Witness ==
  /\ Len(state.past) + Len(state.future) = 50
  /\ Len(state.future) > 0
  /\ Len(state.past) > 0
  /\ Len(REDO(state).past) = Len(state.past) + 1

\* C38: a click on an element without pointer movement (SET_DRAGGING(true)
\* immediately followed by SET_DRAGGING(false), no UPDATE_ELEMENT in between)
\* leaves past and future unchanged.
C38_ClickKeepsHistory ==
  canvas.interactionMode = "none" =>
    \A e \in Presses :
      MouseDownDefined(state, e) =>
        LET down == handleMouseDown(state, canvas, e)
            up == handleMouseUp(down.state, down.canvas)
            dispatched == SET_DRAGGING(SET_DRAGGING(down.state, TRUE), FALSE)
        IN down.canvas.interactionMode = "drag" =>
             /\ up.state.past = state.past
             /\ up.state.future = state.future
             /\ dispatched.past = state.past

\* isDragging only in mode 'drag', isPanning only in mode 'pan'
FlagsFollowMode(s, c) ==
  /\ s.current.isDragging => c.interactionMode = "drag"
  /\ s.current.isPanning => c.interactionMode = "pan"

\* C39: for every sequence of mouse down / move / up / leave events with any
\* buttons and modifier keys, isDragging is true only while the interaction
\* mode is 'drag' and isPanning is true only while it is 'pan'; both are false
\* whenever the mode is 'none'.
C39_FlagsFollowMode ==
  /\ FlagsFollowMode(state, canvas)
  /\ \A e \in MouseEvents :
       MouseDownDefined(state, e) =>
         LET down == handleMouseDown(state, canvas, e)
             up == handleMouseUp(down.state, down.canvas)
         IN /\ FlagsFollowMode(down.state, down.canvas)
            /\ FlagsFollowMode(up.state, up.canvas)

\* C40: in every reachable state, if current.elements differs from the
\* elements that held at the most recent LOAD_STATE, MARK_SAVED or session
\* start, then hasUnsavedChanges is true; selection, viewport, dragging and
\* panning actions never change hasUnsavedChanges.
C40_UnsavedFlag ==
  /\ state.current.elements # saved => state.current.hasUnsavedChanges
  /\ \A after \in {SET_SELECTION(state, payload) : payload \in IdSets(state)}
                 \cup {ADD_TO_SELECTION(state, payload) : payload \in Ids}
                 \cup {CLEAR_SELECTION(state)}
                 \cup {SET_VIEWPORT(state, payload) : payload \in ViewportPatches}
                 \cup {SET_DRAGGING(state, payload) : payload \in BOOLEAN}
                 \cup {SET_PANNING(state, payload) : payload \in BOOLEAN} :
       after.current.hasUnsavedChanges = state.current.hasUnsavedChanges

\* a document that was marked saved with elements on the canvas and has been
\* edited since, while a drag is under way
C40_Witness ==
  /\ saved # << >>
  /\ state.past # << >>
  /\ state.current.elements # saved
  /\ state.current.hasUnsavedChanges
  /\ state.current.isDragging

====
